---- MODULE Spec2Model ----
(***************************************************************************)
(* The SMS gateway of JeepNiBackend: the account-balance lookup with its   *)
(* success cache, error cache and fetch lock (src/app.py, get_sms_balance) *)
(* and the sliding-window rate limiter (src/routes.py, SimpleRateLimiter). *)
(*                                                                         *)
(* Time is counted in whole seconds.  A step of a worker thread is         *)
(* instantaneous: a clock read and the cache-lock critical section that    *)
(* follows it (in-memory copies only) form one step; time passes between   *)
(* steps, in particular while a thread waits for the fetch lock and while  *)
(* an upstream call is in flight.                                          *)
(***************************************************************************)
EXTENDS Integers, Sequences, FiniteSets, TLC

VARIABLES
    clock,                  \* time.monotonic(), whole seconds
    BALANCE_CACHE_SECONDS,  \* configuration, fixed at start-up
    SEMAPHORE_API_KEY,      \* "" when not configured
    balance_cache,          \* the success entry
    balance_error_cache,    \* the error entry
    balance_fetch_lock,     \* 0 when free, else the holding thread
    pc,                     \* per thread: "idle", "wait" (for the fetch lock), "call" (upstream call in flight)
    now,                    \* per thread: the local `now` of its last cache check
    last,                   \* the response returned by the step just taken, if any
    upCalls,                \* upstream account calls issued so far
    reqs,                   \* requests started so far
    covered,                \* history: the upstream call a waiting thread overlapped with first
    wrote,                  \* history: per upstream call, the cache entry its handling stored
    freshAt,                \* history: when the last 2xx upstream reply was handled (0: never)
    datetime_now,           \* datetime.now(), in half seconds
    requests,               \* sms_rate_limiter.requests: key -> list of timestamps
    limits,                 \* the arguments given to rate_limit(...)
    rl_last,                \* the rate limiter call just made, if any
    accepted,               \* history: per key, the times of the calls is_allowed accepted
    sms_pc,                 \* the send_sms worker: "idle", "posting" (upstream call in flight), "done"
    sms_last,               \* the send_sms request in hand and, once done, its response
    norm_call,              \* the call of _build_balance_payload in hand and, once made, its outcome
    balance_cache_lock,     \* 0 when free, else the holding thread
    reply,                  \* per thread: the upstream reply being handled, once the call has ended
    copied                  \* per thread: the 429 handler has copied the success entry

gwvars == <<clock, BALANCE_CACHE_SECONDS, SEMAPHORE_API_KEY, balance_cache,
            balance_error_cache, balance_fetch_lock, pc, now, last, upCalls,
            reqs, covered, wrote, freshAt>>

rlvars == <<datetime_now, requests, limits, rl_last, accepted>>

smsvars == <<sms_pc, sms_last>>

nmvars == <<norm_call>>

lkvars == <<balance_cache_lock, reply, copied>>

vars == <<gwvars, rlvars, smsvars, nmvars, lkvars>>

\* ---------------------------------------------------------------- bounds
NumThreads == 2
MaxTime == 8
MaxRequests == 3
MaxAccepted == 4

Threads == 1..NumThreads
CallIds == 1..MaxRequests

\* The configurations explored with concurrent requests: caching off, a TTL
\* below 5 and one above 30.
CacheSecondsChoices == {0, 2, 60}

Max(a, b) == IF a >= b THEN a ELSE b
Min(a, b) == IF a <= b THEN a ELSE b

\* Python's None where a number is expected.
NoneVal == -1

\* ---------------------------------------------------------------- payloads
\* A JSON body: the keys it carries and the values the claims read.
\* data: the upstream call whose account record the body shows (0: none);
\* origin: the upstream call whose handling built the body (0: none).
BasePayload ==
    [kind |-> "none", keys |-> {}, success |-> FALSE, stale |-> FALSE,
     retry_after |-> 0, last_updated_seconds_ago |-> 0, data |-> 0, origin |-> 0]

NoPayload == BasePayload

InitBalanceCache ==
    [timestamp |-> 0, ttl |-> 0, payload |-> NoPayload, status |-> 200,
     retrieved_timestamp |-> 0]

ClearedErrorCache ==
    [timestamp |-> 0, ttl |-> 0, payload |-> NoPayload, status |-> 429]

NotConfiguredPayload ==
    [BasePayload EXCEPT !.kind = "not_configured", !.keys = {"success", "error"}]

\* _build_balance_payload on a well-formed account body.
BuildBalancePayload(call) ==
    [BasePayload EXCEPT !.kind = "balance",
        !.keys = {"success", "balance", "account", "raw", "stale", "retrieved_at"},
        !.success = TRUE, !.data = call, !.origin = call]

NonJsonPayload(call) ==
    [BasePayload EXCEPT !.kind = "nonjson",
        !.keys = {"success", "balance", "account", "raw", "stale", "note", "retrieved_at"},
        !.success = TRUE, !.data = call, !.origin = call]

\* Flask's handler for an exception escaping the view (routes.py internal_error).
InternalErrorPayload(call) ==
    [BasePayload EXCEPT !.kind = "internal_error", !.keys = {"error"}, !.origin = call]

RateLimitPayload(call, retry_after) ==
    [BasePayload EXCEPT !.kind = "rate_limited",
        !.keys = {"success", "error", "retry_after", "details"},
        !.retry_after = retry_after, !.origin = call]

UpstreamErrorPayload(call) ==
    [BasePayload EXCEPT !.kind = "upstream_error", !.keys = {"success", "error"},
        !.origin = call]

UnreachablePayload(call) ==
    [BasePayload EXCEPT !.kind = "unreachable", !.keys = {"success", "error"},
        !.origin = call]

\* StalePayload with the age counted from the entry's capture time.
StalePayloadAgeOfCapture(cached_payload, cached_retrieved_ts, retry_after, t, call) ==
    [cached_payload EXCEPT
        !.keys = @ \cup {"stale", "success", "note", "retry_after", "last_updated_seconds_ago"},
        !.stale = TRUE, !.success = TRUE, !.retry_after = retry_after,
        !.last_updated_seconds_ago = Max(t - balance_cache.timestamp, 0),
        !.origin = call]

StalePayload(cached_payload, cached_retrieved_ts, retry_after, t, call) ==
    [cached_payload EXCEPT
        !.keys = @ \cup {"stale", "success", "note", "retry_after", "last_updated_seconds_ago"},
        !.stale = TRUE, !.success = TRUE, !.retry_after = retry_after,
        !.last_updated_seconds_ago =
            IF cached_retrieved_ts # 0 THEN Max(t - cached_retrieved_ts, 0) ELSE NoneVal,
        !.origin = call]

\* ---------------------------------------------------------------- strings
\* A string is a sequence of symbols: words, single characters, punctuation.
Digits == <<"0", "1", "2", "3", "4", "5", "6", "7", "8", "9">>

IsDigit(c) == \E i \in 1..10 : Digits[i] = c

DigitVal(c) == (CHOOSE i \in 1..10 : Digits[i] = c) - 1

\* str.strip(): leading and trailing blanks removed.
Strip(s) ==
    IF \A i \in 1..Len(s) : s[i] = " " THEN <<>>
    ELSE LET n == Len(s)
             lead == CHOOSE k \in 0..n : s[k + 1] # " " /\ \A j \in 1..k : s[j] = " "
             trail == CHOOSE k \in 0..n : s[n - k] # " " /\ \A j \in 1..k : s[n + 1 - j] = " "
         IN  SubSeq(s, lead + 1, n - trail)

RECURSIVE DecimalValue(_)
DecimalValue(s) ==
    IF s = <<>> THEN 0
    ELSE 10 * DecimalValue(SubSeq(s, 1, Len(s) - 1)) + DigitVal(s[Len(s)])

\* int(text): blanks stripped, an optional sign, then digits only;
\* anything else raises ValueError (ok = FALSE).
ParseInt(text) ==
    LET s == Strip(text)
        signed == s # <<>> /\ Head(s) \in {"-", "+"}
        digits == IF signed THEN Tail(s) ELSE s
        ok == digits # <<>> /\ \A i \in 1..Len(digits) : IsDigit(digits[i])
    IN  IF ~ok THEN [ok |-> FALSE, val |-> 0]
        ELSE [ok |-> TRUE,
              val |-> IF signed /\ Head(s) = "-" THEN 0 - DecimalValue(digits)
                      ELSE DecimalValue(digits)]

\* str.lower() on the symbols that carry upper-case letters.
LowerSym(c) ==
    CASE c = "Rate" -> "rate"
      [] c = "LIMIT" -> "limit"
      [] OTHER -> c

Lower(s) == [i \in 1..Len(s) |-> LowerSym(s[i])]

\* "rate limit" in haystack
HasRateLimit(s) ==
    \E i \in 1..(Len(s) - 2) : s[i] = "rate" /\ s[i + 1] = " " /\ s[i + 2] = "limit"

\* ---------------------------------------------------------------- JSON values
JNull == [tag |-> "null", s |-> <<>>, elems |-> <<>>, items |-> <<>>]
JNum == [tag |-> "num", s |-> <<"5">>, elems |-> <<>>, items |-> <<>>]
\* A JSON number, by the characters of its literal.
JNumber(literal) == [tag |-> "num", s |-> literal, elems |-> <<>>, items |-> <<>>]
JBool(b) ==
    [tag |-> "bool", s |-> IF b THEN <<"True">> ELSE <<"False">>, elems |-> <<>>,
     items |-> <<>>]
JStr(s) == [tag |-> "str", s |-> s, elems |-> <<>>, items |-> <<>>]
JList(elems) == [tag |-> "list", s |-> <<>>, elems |-> elems, items |-> <<>>]
JDict(items) == [tag |-> "dict", s |-> <<>>, elems |-> <<>>, items |-> items]
Item(k, v) == [k |-> k, v |-> v]

RECURSIVE PyRepr(_)
RECURSIVE ReprElems(_)
RECURSIVE ReprItems(_)
\* repr() of a decoded JSON value, as str() of a container shows its members.
PyRepr(v) ==
    CASE v.tag = "null" -> <<"None">>
      [] v.tag = "num" -> v.s
      [] v.tag = "bool" -> v.s
      [] v.tag = "str" -> <<"'">> \o v.s \o <<"'">>
      [] v.tag = "list" -> <<"[">> \o ReprElems(v.elems) \o <<"]">>
      [] v.tag = "dict" -> <<"{">> \o ReprItems(v.items) \o <<"}">>

ReprElems(elems) ==
    IF elems = <<>> THEN <<>>
    ELSE IF Len(elems) = 1 THEN PyRepr(elems[1])
    ELSE PyRepr(elems[1]) \o <<",", " ">> \o ReprElems(Tail(elems))

ReprItems(items) ==
    IF items = <<>> THEN <<>>
    ELSE LET one == <<"'">> \o items[1].k \o <<"'", ":", " ">> \o PyRepr(items[1].v)
         IN  IF Len(items) = 1 THEN one
             ELSE one \o <<",", " ">> \o ReprItems(Tail(items))

\* str(value)
PyStr(v) == IF v.tag = "str" THEN v.s ELSE PyRepr(v)

RECURSIVE Fragments(_)
\* The fragments list _is_rate_limit_payload builds from a dict.
Fragments(items) ==
    IF items = <<>> THEN <<>>
    ELSE LET it == items[1]
             vals == IF it.v.tag = "list"
                     THEN [i \in 1..Len(it.v.elems) |-> PyStr(it.v.elems[i])]
                     ELSE <<PyStr(it.v)>>
         IN  <<it.k>> \o vals \o Fragments(Tail(items))

RECURSIVE JoinSpace(_)
\* " ".join(fragments)
JoinSpace(frags) ==
    IF frags = <<>> THEN <<>>
    ELSE IF Len(frags) = 1 THEN frags[1]
    ELSE frags[1] \o <<" ">> \o JoinSpace(Tail(frags))

IsRateLimitPayload(payload) ==
    IF payload.tag = "null" THEN FALSE
    ELSE LET haystack ==
                 IF payload.tag = "str" THEN payload.s
                 ELSE IF payload.tag = "dict" THEN JoinSpace(Fragments(payload.items))
                 ELSE PyStr(payload)
         IN  HasRateLimit(Lower(haystack))

\* ---------------------------------------------------------------- upstream responses
\* kind: "ok_json" (2xx, JSON account record), "ok_bad" (2xx, JSON whose account
\* part is not an object), "ok_nonjson" (2xx, body not JSON), "http" (4xx/5xx),
\* "transport" (no response: connection error or timeout).
Response(kind, status, has_header, header, is_json, value, text) ==
    [kind |-> kind, status |-> status, has_retry_after |-> has_header,
     retry_after_header |-> header, is_json |-> is_json, value |-> value, text |-> text]

OkJson == Response("ok_json", 200, FALSE, <<>>, TRUE, JNull, <<>>)
OkBad == Response("ok_bad", 200, FALSE, <<>>, TRUE, JNull, <<>>)
OkNonJson == Response("ok_nonjson", 200, FALSE, <<>>, FALSE, JNull, <<>>)
Transport == Response("transport", 0, FALSE, <<>>, FALSE, JNull, <<>>)
HttpError(status, hdr, body) ==
    Response("http", status, hdr.present, hdr.value, body.is_json, body.value, body.text)

Hdr(present, value) == [present |-> present, value |-> value]
JsonBody(v) == [is_json |-> TRUE, value |-> v, text |-> <<>>]
TextBody(s) == [is_json |-> FALSE, value |-> JNull, text |-> s]

\* error_body: response.json(), or {"error": response.text} when that raises.
ErrorBody(r) ==
    IF r.is_json THEN r.value ELSE JDict(<<Item(<<"error">>, JStr(r.text))>>)

\* `if retry_after_header:` -- None and "" are both false.
HeaderTruthy(r) == r.has_retry_after /\ r.retry_after_header # <<>>

EffectiveStatus(r) ==
    IF r.status # 429
    THEN IF HeaderTruthy(r) THEN 429
         ELSE IF IsRateLimitPayload(ErrorBody(r)) THEN 429
         ELSE r.status
    ELSE r.status

\* RetryAfter without the floor of 5 seconds.
RetryAfterNoFloor(r, cache_seconds) ==
    LET parsed == IF r.has_retry_after THEN ParseInt(r.retry_after_header)
                  ELSE [ok |-> FALSE, val |-> 0]
    IN  IF parsed.ok THEN parsed.val
        ELSE IF cache_seconds > 0 THEN cache_seconds ELSE 30

RetryAfter(r, cache_seconds) ==
    LET parsed == IF r.has_retry_after THEN ParseInt(r.retry_after_header)
                  ELSE [ok |-> FALSE, val |-> 0]
        retry_after == IF parsed.ok THEN parsed.val
                       ELSE IF cache_seconds > 0 THEN cache_seconds ELSE 30
    IN  Max(retry_after, 5)

\* ErrorTtl without the bounds 5 and 30.
ErrorTtlUnbounded(cache_seconds) == IF cache_seconds > 0 THEN cache_seconds ELSE 10

ErrorTtl(cache_seconds) ==
    IF cache_seconds > 0 THEN Max(5, Min(cache_seconds, 30)) ELSE 10

PlainBody == JsonBody(JDict(<<Item(<<"message">>, JStr(<<"x">>))>>))
RateLimitBody == JsonBody(JDict(<<Item(<<"error">>, JStr(<<"Rate", " ", "LIMIT", " ", "x">>))>>))

NoHeader == Hdr(FALSE, <<>>)

\* The upstream replies explored with concurrent requests.
Responses ==
    {OkJson, OkBad, OkNonJson, Transport,
     HttpError(429, NoHeader, PlainBody),
     HttpError(503, Hdr(TRUE, <<"1", "2">>), PlainBody),
     HttpError(503, NoHeader, RateLimitBody),
     HttpError(503, NoHeader, PlainBody)}

\* The upstream error replies explored with one request at a time: each
\* status below with every Retry-After header (and a plain body), with every
\* body shape (and no header), and with an empty header and the text.
RichStatuses == {429, 503}

RichHeaders ==
    {NoHeader, Hdr(TRUE, <<>>), Hdr(TRUE, <<"1", "2">>), Hdr(TRUE, <<"2">>),
     Hdr(TRUE, <<"-", "3">>), Hdr(TRUE, <<" ", "7">>), Hdr(TRUE, <<"1", ".", "5">>),
     Hdr(TRUE, <<"x">>)}

RateLimitText == <<"x", " ", "rate", " ", "limit", " ", "x">>

RichBodies ==
    {PlainBody, RateLimitBody,
     \* the text in a nested object, and in an object inside a list
     JsonBody(JDict(<<Item(<<"error">>, JDict(<<Item(<<"message">>, JStr(RateLimitText))>>))>>)),
     JsonBody(JDict(<<Item(<<"errors">>, JList(<<JDict(<<Item(<<"message">>, JStr(RateLimitText))>>)>>))>>)),
     \* the text as a key
     JsonBody(JDict(<<Item(<<"Rate", " ", "limit">>, JNum)>>)),
     \* a top-level string, a top-level list, null
     JsonBody(JStr(RateLimitText)),
     JsonBody(JList(<<JNum, JStr(RateLimitText)>>)),
     JsonBody(JList(<<JStr(<<"rate">>), JStr(<<"limit">>)>>)),
     JsonBody(JNull),
     \* "rate" and "limit" in different strings of an object
     JsonBody(JDict(<<Item(<<"message">>, JStr(<<"x", " ", "rate">>)), Item(<<"limit">>, JNum)>>)),
     JsonBody(JDict(<<Item(<<"errors">>, JList(<<JStr(<<"rate">>), JStr(<<"limit">>)>>))>>)),
     JsonBody(JDict(<<Item(<<"error">>, JDict(<<Item(<<"rate">>, JStr(<<"limit">>))>>))>>)),
     \* bodies that are not JSON
     TextBody(RateLimitText), TextBody(<<"x">>), TextBody(<<>>)}

RichResponses ==
    {OkJson, OkBad, OkNonJson, Transport}
    \cup {HttpError(s, h, PlainBody) : s \in RichStatuses, h \in RichHeaders}
    \cup {HttpError(s, NoHeader, b) : s \in RichStatuses, b \in RichBodies}
    \cup {HttpError(s, Hdr(TRUE, <<>>), RateLimitBody) : s \in RichStatuses}

\* The configurations explored with one request at a time: negative, zero,
\* below 5, between 5 and 30, above 30.
SeqCacheSecondsChoices == {-1, 0, 2, 10, 60}

NoResponse == Response("none", 0, FALSE, <<>>, FALSE, JNull, <<>>)

\* A returned response: the thread it answers (0: none), how it was produced
\* ("config", "fast", "postwait", "upstream") and the covering call of the
\* request (see covered).
NoResult ==
    [thread |-> 0, status |-> 0, payload |-> NoPayload, via |-> "none", covered |-> 0,
     up |-> NoResponse]

NoWrite == [entry |-> "none", timestamp |-> 0, ttl |-> 0]

\* ---------------------------------------------------------------- cache reads
\* The success check with the expiry instant counted as still valid.
SuccessHitInclusive(t) ==
    /\ balance_cache.payload # NoPayload
    /\ balance_cache.status < 400
    /\ balance_cache.ttl > 0
    /\ (t - balance_cache.timestamp) <= balance_cache.ttl

SuccessHit(t) ==
    /\ balance_cache.payload # NoPayload
    /\ balance_cache.status < 400
    /\ balance_cache.ttl > 0
    /\ (t - balance_cache.timestamp) < balance_cache.ttl

ErrorHit(t) ==
    /\ balance_error_cache.payload # NoPayload
    /\ balance_error_cache.ttl > 0
    /\ (t - balance_error_cache.timestamp) < balance_error_cache.ttl

CacheHit(t) == SuccessHit(t) \/ ErrorHit(t)

\* What a hit returns: the success entry is looked at first.
CachedResponse(t) ==
    IF SuccessHit(t)
    THEN [status |-> balance_cache.status, payload |-> balance_cache.payload]
    ELSE [status |-> balance_error_cache.status, payload |-> balance_error_cache.payload]

Returned(t, response, via) ==
    [thread |-> t, status |-> response.status, payload |-> response.payload,
     via |-> via, covered |-> covered[t], up |-> NoResponse]

\* ---------------------------------------------------------------- rate limiter
\* Times of datetime.now() are counted in half seconds, so that a difference
\* of two of them need not be a whole number of seconds.
ClientKeys == {"10.0.0.1", "10.0.0.2"}

\* The instants at which the wall clock is read: around 0 s, 1 s and 2 s,
\* and around 60 s and 61 s.
Instants == {0, 1, 2, 3, 4, 120, 121, 122}

MaxRequestsArgs == {1, 3}
WindowSecondsArgs == {1, 60}

\* timedelta(seconds=n)
Seconds(n) == n + n

\* int(delta.total_seconds()): truncation towards zero.
TotalSeconds(delta) == IF delta >= 0 THEN delta \div 2 ELSE 0 - ((0 - delta) \div 2)

DefaultLimits == [max_requests |-> 10, window_seconds |-> 60]

NoCall ==
    [op |-> "none", key |-> "", max_requests |-> 0, window_seconds |-> 0,
     now |-> 0, allowed |-> FALSE, retry_after |-> 0]

\* self.requests[key] of a defaultdict(list).
KeyRequests(key) == IF key \in DOMAIN requests THEN requests[key] ELSE <<>>

\* self.requests[key] = list
Store(key, list) ==
    [k \in DOMAIN requests \cup {key} |-> IF k = key THEN list ELSE requests[k]]

\* Pruned keeping the timestamp equal to window_start.
PrunedInclusive(list, window_start) ==
    SelectSeq(list, LAMBDA req_time : req_time >= window_start)

\* [req_time for req_time in list if req_time > window_start]
Pruned(list, window_start) ==
    SelectSeq(list, LAMBDA req_time : req_time > window_start)

\* LimitReached that lets one more request in.
LimitReachedOffByOne(list, max_requests) == Len(list) > max_requests

\* len(list) >= max_requests
LimitReached(list, max_requests) == Len(list) >= max_requests

\* MinOf taking the timestamp appended last.
NewestOf(list) == list[Len(list)]

RECURSIVE MinOf(_)
\* min(list) of a non-empty list
MinOf(list) ==
    IF Len(list) = 1 THEN list[1]
    ELSE Min(list[1], MinOf(Tail(list)))

RECURSIVE TotalLen(_, _)
\* The number of timestamps held for `keys`.
TotalLen(f, keys) ==
    IF keys = {} THEN 0
    ELSE LET k == CHOOSE x \in keys : TRUE
         IN  Len(f[k]) + TotalLen(f, keys \ {k})

\* The JSON body of a send-sms request: message, sender (the `sender` or
\* `sendername` field), and the three fields that may carry the recipients.
SmsPayload(message, sender, number, numbers, recipients) ==
    [message |-> message, sender |-> sender, number |-> number,
     numbers |-> numbers, recipients |-> recipients]

NoSmsData == [number |-> <<>>, message |-> <<>>, sendername |-> <<>>]

\* The response of send_sms: status, the keys of its JSON body and the value
\* of `success` where the body has one; `calls` counts the upstream calls the
\* request made and `posted` is the form it sent.
SmsResult(status, kind, keys, success) ==
    [op |-> "send_sms", payload |-> SmsPayload(JNull, JNull, JNull, JNull, JNull),
     status |-> status, kind |-> kind, keys |-> keys, success |-> success,
     calls |-> 0, posted |-> NoSmsData, up |-> NoResponse]

NoSms == [SmsResult(0, "none", {}, FALSE) EXCEPT !.op = "none"]

SmsStart ==
    /\ sms_pc = "idle"
    /\ sms_last = NoSms

\* No call of _build_balance_payload in hand.
NoNormCall ==
    [pc |-> "none", raw_payload |-> JNull, result |-> [raised |-> "", payload |-> JNull]]

NormStart == norm_call = NoNormCall

\* Nobody holds the cache lock and no reply is being handled.
LockStart ==
    /\ balance_cache_lock = 0
    /\ reply = [t \in Threads |-> NoResponse]
    /\ copied = [t \in Threads |-> FALSE]

LimiterStart ==
    /\ datetime_now = 0
    /\ requests = [k \in {} |-> <<>>]
    /\ rl_last = NoCall
    /\ accepted = [k \in ClientKeys |-> <<>>]

GatewayStart ==
    /\ clock = 1
    /\ balance_cache = InitBalanceCache
    /\ balance_error_cache = ClearedErrorCache
    /\ balance_fetch_lock = 0
    /\ pc = [t \in Threads |-> "idle"]
    /\ now = [t \in Threads |-> 0]
    /\ last = NoResult
    /\ upCalls = 0
    /\ reqs = 0
    /\ covered = [t \in Threads |-> 0]
    /\ wrote = [c \in CallIds |-> NoWrite]
    /\ freshAt = 0

\* The process after start-up, configured with one of `choices`.
Boot(choices) ==
    /\ BALANCE_CACHE_SECONDS \in choices
    /\ SEMAPHORE_API_KEY \in {"", "key"}
    /\ GatewayStart
    /\ LimiterStart
    /\ limits = DefaultLimits
    /\ SmsStart
    /\ NormStart
    /\ LockStart

Init == Boot(CacheSecondsChoices)

InitSeq == Boot(SeqCacheSecondsChoices)

\* The process with calls of the rate limiter only.
InitRL ==
    /\ BALANCE_CACHE_SECONDS = 60
    /\ SEMAPHORE_API_KEY = "key"
    /\ GatewayStart
    /\ LimiterStart
    /\ limits = DefaultLimits
    /\ SmsStart
    /\ NormStart
    /\ LockStart

\* The same, every call made with the arguments of one rate_limit(...).
InitRateLimit ==
    /\ BALANCE_CACHE_SECONDS = 60
    /\ SEMAPHORE_API_KEY = "key"
    /\ GatewayStart
    /\ LimiterStart
    /\ limits \in [max_requests : MaxRequestsArgs, window_seconds : WindowSecondsArgs]
    /\ SmsStart
    /\ NormStart
    /\ LockStart

\* Wall-clock time passes.
WallTick ==
    /\ \E i \in Instants : i > datetime_now /\ datetime_now' = i
    /\ rl_last' = NoCall
    /\ UNCHANGED <<requests, limits, accepted>>
    /\ UNCHANGED <<gwvars, smsvars, nmvars, lkvars>>

\* SimpleRateLimiter.is_allowed.  The lock is held for the whole body, so
\* calls of the limiter are serialized and each is one step.
is_allowed(key, max_requests, window_seconds) ==
    /\ TotalLen(accepted, ClientKeys) < MaxAccepted
    /\ LET window_start == datetime_now - Seconds(window_seconds)
           kept == Pruned(KeyRequests(key), window_start)
           call == [NoCall EXCEPT !.op = "is_allowed", !.key = key,
                                  !.max_requests = max_requests,
                                  !.window_seconds = window_seconds,
                                  !.now = datetime_now]
       IN  IF LimitReached(kept, max_requests)
           THEN /\ requests' = Store(key, kept)
                /\ rl_last' = [call EXCEPT !.allowed = FALSE]
                /\ accepted' = accepted
           ELSE /\ requests' = Store(key, Append(kept, datetime_now))
                /\ rl_last' = [call EXCEPT !.allowed = TRUE]
                /\ accepted' = [accepted EXCEPT ![key] = Append(@, datetime_now)]
    /\ UNCHANGED <<datetime_now, limits>>
    /\ UNCHANGED <<gwvars, smsvars, nmvars, lkvars>>

\* SimpleRateLimiter.get_retry_after.
get_retry_after(key, window_seconds) ==
    /\ LET list == KeyRequests(key)
           reset_time == MinOf(list) + Seconds(window_seconds)
           call == [NoCall EXCEPT !.op = "get_retry_after", !.key = key,
                                  !.window_seconds = window_seconds,
                                  !.now = datetime_now]
       IN  /\ requests' = Store(key, list)
           /\ rl_last' =
                  [call EXCEPT !.retry_after =
                      IF list = <<>> THEN 0
                      ELSE IF reset_time > datetime_now
                           THEN TotalSeconds(reset_time - datetime_now)
                           ELSE 0]
    /\ UNCHANGED <<datetime_now, limits, accepted>>
    /\ UNCHANGED <<gwvars, smsvars, nmvars, lkvars>>

NextRL ==
    \/ WallTick
    \/ \E key \in ClientKeys, m \in MaxRequestsArgs, w \in WindowSecondsArgs :
           is_allowed(key, m, w)
    \/ \E key \in ClientKeys, w \in WindowSecondsArgs : get_retry_after(key, w)

SpecRL == InitRL /\ [][NextRL]_vars

NextRateLimit ==
    \/ WallTick
    \/ \E key \in ClientKeys :
           is_allowed(key, limits.max_requests, limits.window_seconds)
    \/ \E key \in ClientKeys : get_retry_after(key, limits.window_seconds)

SpecRateLimit == InitRateLimit /\ [][NextRateLimit]_vars

\* ---------------------------------------------------------------- actions
\* Time passes.
Tick ==
    /\ clock < MaxTime
    /\ clock' = clock + 1
    /\ last' = NoResult
    /\ UNCHANGED <<BALANCE_CACHE_SECONDS, SEMAPHORE_API_KEY, balance_cache,
                   balance_error_cache, balance_fetch_lock, pc, now,
                   upCalls, reqs, covered, wrote, freshAt>>

\* The upstream call in flight, if any: calls are serialized by the fetch
\* lock, so it is the one issued last.
InFlight == IF \E w \in Threads : pc[w] = "call" THEN upCalls ELSE 0

\* get_sms_balance without an API key: the fixed 500, nothing else touched.
RequestNotConfigured(t) ==
    /\ pc[t] = "idle"
    /\ reqs < MaxRequests
    /\ SEMAPHORE_API_KEY = ""
    /\ reqs' = reqs + 1
    /\ last' = Returned(t, [status |-> 500, payload |-> NotConfiguredPayload], "config")
    /\ UNCHANGED <<clock, BALANCE_CACHE_SECONDS, SEMAPHORE_API_KEY, balance_cache,
                   balance_error_cache, balance_fetch_lock, pc, now, upCalls, covered, wrote, freshAt>>

\* get_sms_balance, first check under the cache lock: a live entry is returned.
RequestHit(t) ==
    /\ pc[t] = "idle"
    /\ reqs < MaxRequests
    /\ SEMAPHORE_API_KEY # ""
    /\ CacheHit(clock)
    /\ reqs' = reqs + 1
    /\ last' = Returned(t, CachedResponse(clock), "fast")
    /\ UNCHANGED <<clock, BALANCE_CACHE_SECONDS, SEMAPHORE_API_KEY, balance_cache,
                   balance_error_cache, balance_fetch_lock, pc, now, upCalls, covered, wrote, freshAt>>

\* get_sms_balance, first check: both entries absent or expired; the thread
\* goes on to wait for the fetch lock.
RequestMiss(t) ==
    /\ pc[t] = "idle"
    /\ reqs < MaxRequests
    /\ SEMAPHORE_API_KEY # ""
    /\ ~CacheHit(clock)
    /\ reqs' = reqs + 1
    /\ pc' = [pc EXCEPT ![t] = "wait"]
    /\ last' = NoResult
    /\ covered' = [covered EXCEPT ![t] = InFlight]
    /\ UNCHANGED <<clock, BALANCE_CACHE_SECONDS, SEMAPHORE_API_KEY, balance_cache,
                   balance_error_cache, balance_fetch_lock, now, upCalls, wrote, freshAt>>

\* The fetch lock is acquired, `now` read again and the check repeated: an
\* entry stored meanwhile is returned and the lock released.
AcquireHit(t) ==
    /\ pc[t] = "wait"
    /\ balance_fetch_lock = 0
    /\ CacheHit(clock)
    /\ pc' = [pc EXCEPT ![t] = "idle"]
    /\ last' = Returned(t, CachedResponse(clock), "postwait")
    /\ covered' = [covered EXCEPT ![t] = 0]
    /\ UNCHANGED <<clock, BALANCE_CACHE_SECONDS, SEMAPHORE_API_KEY, balance_cache,
                   balance_error_cache, balance_fetch_lock, now, upCalls, reqs, wrote, freshAt>>

\* AcquireMiss that does not wait for the fetch lock to be free.
AcquireMissNoLock(t) ==
    /\ pc[t] = "wait"
    /\ ~CacheHit(clock)
    /\ balance_fetch_lock' = t
    /\ pc' = [pc EXCEPT ![t] = "call"]
    /\ now' = [now EXCEPT ![t] = clock]
    /\ upCalls' = upCalls + 1
    /\ last' = NoResult
    /\ covered' = [u \in Threads |->
           IF u # t /\ pc[u] = "wait" /\ covered[u] = 0 THEN upCalls + 1 ELSE covered[u]]
    /\ UNCHANGED <<clock, BALANCE_CACHE_SECONDS, SEMAPHORE_API_KEY, balance_cache,
                   balance_error_cache, reqs, wrote, freshAt>>

\* AcquireMiss without the repeated check after the fetch lock is acquired.
AcquireMissNoRecheck(t) ==
    /\ pc[t] = "wait"
    /\ balance_fetch_lock = 0
    /\ balance_fetch_lock' = t
    /\ pc' = [pc EXCEPT ![t] = "call"]
    /\ now' = [now EXCEPT ![t] = clock]
    /\ upCalls' = upCalls + 1
    /\ last' = NoResult
    /\ covered' = [u \in Threads |->
           IF u # t /\ pc[u] = "wait" /\ covered[u] = 0 THEN upCalls + 1 ELSE covered[u]]
    /\ UNCHANGED <<clock, BALANCE_CACHE_SECONDS, SEMAPHORE_API_KEY, balance_cache,
                   balance_error_cache, reqs, wrote, freshAt>>

\* AcquireMiss whose repeated check looks at the error entry only.
AcquireMissErrorOnly(t) ==
    /\ pc[t] = "wait"
    /\ balance_fetch_lock = 0
    /\ ~ErrorHit(clock)
    /\ balance_fetch_lock' = t
    /\ pc' = [pc EXCEPT ![t] = "call"]
    /\ now' = [now EXCEPT ![t] = clock]
    /\ upCalls' = upCalls + 1
    /\ covered' = [u \in Threads |->
           IF u # t /\ pc[u] = "wait" /\ covered[u] = 0 THEN upCalls + 1 ELSE covered[u]]
    /\ last' = NoResult
    /\ UNCHANGED <<clock, BALANCE_CACHE_SECONDS, SEMAPHORE_API_KEY, balance_cache,
                   balance_error_cache, reqs, wrote, freshAt>>

\* The fetch lock is acquired and the repeated check misses too: the thread
\* issues the upstream account call, holding the fetch lock.
AcquireMiss(t) ==
    /\ pc[t] = "wait"
    /\ balance_fetch_lock = 0
    /\ ~CacheHit(clock)
    /\ balance_fetch_lock' = t
    /\ pc' = [pc EXCEPT ![t] = "call"]
    /\ now' = [now EXCEPT ![t] = clock]
    /\ upCalls' = upCalls + 1
    /\ covered' = [u \in Threads |->
           IF u # t /\ pc[u] = "wait" /\ covered[u] = 0 THEN upCalls + 1 ELSE covered[u]]
    /\ last' = NoResult
    /\ UNCHANGED <<clock, BALANCE_CACHE_SECONDS, SEMAPHORE_API_KEY, balance_cache,
                   balance_error_cache, reqs, wrote, freshAt>>

\* The request of t, having handled the upstream reply r, returns `response`;
\* the fetch lock is released.
Return(t, r, response) ==
    /\ pc' = [pc EXCEPT ![t] = "idle"]
    /\ now' = [now EXCEPT ![t] = 0]
    /\ balance_fetch_lock' = 0
    /\ last' = [Returned(t, response, "upstream") EXCEPT !.up = r]
    /\ covered' = [covered EXCEPT ![t] = 0]
    /\ freshAt' = IF r.kind \in {"ok_json", "ok_nonjson"} THEN clock ELSE freshAt
    /\ UNCHANGED <<clock, BALANCE_CACHE_SECONDS, SEMAPHORE_API_KEY, upCalls, reqs>>

UpstreamResult(status, payload) == [status |-> status, payload |-> payload]

\* WriteSuccess leaving the error entry as it is.
WriteSuccessKeepingError(payload) ==
    LET cache_duration == Max(BALANCE_CACHE_SECONDS, 0)
    IN  IF cache_duration > 0
        THEN /\ balance_cache' = [timestamp |-> clock, retrieved_timestamp |-> clock,
                                  ttl |-> cache_duration, payload |-> payload, status |-> 200]
             /\ wrote' = [wrote EXCEPT ![upCalls] =
                    [entry |-> "success", timestamp |-> clock, ttl |-> cache_duration]]
             /\ UNCHANGED balance_error_cache
        ELSE UNCHANGED <<balance_cache, balance_error_cache, wrote>>

\* A fresh success is stored (only with a positive configured TTL); the
\* error entry is cleared with it.
WriteSuccess(payload) ==
    LET cache_duration == Max(BALANCE_CACHE_SECONDS, 0)
    IN  IF cache_duration > 0
        THEN /\ balance_cache' = [timestamp |-> clock, retrieved_timestamp |-> clock,
                                  ttl |-> cache_duration, payload |-> payload, status |-> 200]
             /\ balance_error_cache' = ClearedErrorCache
             /\ wrote' = [wrote EXCEPT ![upCalls] =
                    [entry |-> "success", timestamp |-> clock, ttl |-> cache_duration]]
        ELSE UNCHANGED <<balance_cache, balance_error_cache, wrote>>

\* WriteStaleFallback moving retrieved_timestamp to the time of the write.
WriteStaleFallbackAdvancing(stale_payload, retry_after, cached_retrieved_ts) ==
    /\ balance_cache' = [timestamp |-> clock, ttl |-> retry_after, payload |-> stale_payload,
                         status |-> 200, retrieved_timestamp |-> clock]
    /\ balance_error_cache' = ClearedErrorCache
    /\ wrote' = [wrote EXCEPT ![upCalls] =
           [entry |-> "success", timestamp |-> clock, ttl |-> retry_after]]

\* WriteStaleFallback taking the payload out of the success entry once it
\* has been served as stale.
WriteStaleFallbackErasing(stale_payload, retry_after, cached_retrieved_ts) ==
    /\ balance_cache' = [timestamp |-> clock, ttl |-> retry_after, payload |-> NoPayload,
                         status |-> 200,
                         retrieved_timestamp |->
                             IF cached_retrieved_ts # 0 THEN cached_retrieved_ts ELSE clock]
    /\ balance_error_cache' = ClearedErrorCache
    /\ wrote' = [wrote EXCEPT ![upCalls] =
           [entry |-> "success", timestamp |-> clock, ttl |-> retry_after]]

WriteStaleFallback(stale_payload, retry_after, cached_retrieved_ts) ==
    /\ balance_cache' = [timestamp |-> clock, ttl |-> retry_after, payload |-> stale_payload,
                         status |-> 200,
                         retrieved_timestamp |->
                             IF cached_retrieved_ts # 0 THEN cached_retrieved_ts ELSE clock]
    /\ balance_error_cache' = ClearedErrorCache
    /\ wrote' = [wrote EXCEPT ![upCalls] =
           [entry |-> "success", timestamp |-> clock, ttl |-> retry_after]]

\* WriteError dropping the success entry.
WriteErrorDroppingSuccess(payload, status, ttl) ==
    /\ balance_error_cache' = [timestamp |-> clock, ttl |-> ttl, payload |-> payload,
                               status |-> status]
    /\ wrote' = [wrote EXCEPT ![upCalls] =
           [entry |-> "error", timestamp |-> clock, ttl |-> ttl]]
    /\ balance_cache' = InitBalanceCache

WriteError(payload, status, ttl) ==
    /\ balance_error_cache' = [timestamp |-> clock, ttl |-> ttl, payload |-> payload,
                               status |-> status]
    /\ wrote' = [wrote EXCEPT ![upCalls] =
           [entry |-> "error", timestamp |-> clock, ttl |-> ttl]]
    /\ UNCHANGED balance_cache

\* 2xx with a JSON account record.
RespondOk(t, r) ==
    /\ pc[t] = "call"
    /\ r.kind = "ok_json"
    /\ WriteSuccess(BuildBalancePayload(upCalls))
    /\ Return(t, r, UpstreamResult(200, BuildBalancePayload(upCalls)))

\* 2xx with JSON whose account part is not an object: _build_balance_payload
\* raises AttributeError, nothing is stored, Flask answers 500.
RespondBadShape(t, r) ==
    /\ pc[t] = "call"
    /\ r.kind = "ok_bad"
    /\ UNCHANGED <<balance_cache, balance_error_cache, wrote>>
    /\ Return(t, r, UpstreamResult(500, InternalErrorPayload(upCalls)))

\* 2xx whose body is not JSON.
RespondNonJson(t, r) ==
    /\ pc[t] = "call"
    /\ r.kind = "ok_nonjson"
    /\ WriteSuccess(NonJsonPayload(upCalls))
    /\ Return(t, r, UpstreamResult(200, NonJsonPayload(upCalls)))

\* HTTP error handled as 429 with a previous success payload in the cache.
RespondStale(t, r) ==
    /\ pc[t] = "call"
    /\ r.kind = "http"
    /\ EffectiveStatus(r) = 429
    /\ balance_cache.payload # NoPayload /\ balance_cache.status < 400
    /\ LET retry_after == RetryAfter(r, BALANCE_CACHE_SECONDS)
           cached_retrieved_ts == balance_cache.retrieved_timestamp
           stale_payload == StalePayload(balance_cache.payload, cached_retrieved_ts,
                                         retry_after, clock, upCalls)
       IN  /\ WriteStaleFallback(stale_payload, retry_after, cached_retrieved_ts)
           /\ Return(t, r, UpstreamResult(200, stale_payload))

\* RespondRateLimited storing the entry with the TTL of other errors.
RespondRateLimitedErrorTtl(t, r) ==
    /\ pc[t] = "call"
    /\ r.kind = "http"
    /\ EffectiveStatus(r) = 429
    /\ ~(balance_cache.payload # NoPayload /\ balance_cache.status < 400)
    /\ LET retry_after == RetryAfter(r, BALANCE_CACHE_SECONDS)
       IN  /\ WriteError(RateLimitPayload(upCalls, retry_after), 429,
                         ErrorTtl(BALANCE_CACHE_SECONDS))
           /\ Return(t, r, UpstreamResult(429, RateLimitPayload(upCalls, retry_after)))

\* HTTP error handled as 429 with no previous success payload.
RespondRateLimited(t, r) ==
    /\ pc[t] = "call"
    /\ r.kind = "http"
    /\ EffectiveStatus(r) = 429
    /\ ~(balance_cache.payload # NoPayload /\ balance_cache.status < 400)
    /\ LET retry_after == RetryAfter(r, BALANCE_CACHE_SECONDS)
       IN  /\ WriteError(RateLimitPayload(upCalls, retry_after), 429, retry_after)
           /\ Return(t, r, UpstreamResult(429, RateLimitPayload(upCalls, retry_after)))

\* RespondHttpError that returns the error without storing it.
RespondHttpErrorNotStored(t, r) ==
    /\ pc[t] = "call"
    /\ r.kind = "http"
    /\ EffectiveStatus(r) # 429
    /\ UNCHANGED <<balance_cache, balance_error_cache, wrote>>
    /\ Return(t, r, UpstreamResult(EffectiveStatus(r), UpstreamErrorPayload(upCalls)))

\* Any other HTTP error.
RespondHttpError(t, r) ==
    /\ pc[t] = "call"
    /\ r.kind = "http"
    /\ EffectiveStatus(r) # 429
    /\ WriteError(UpstreamErrorPayload(upCalls), EffectiveStatus(r),
                  ErrorTtl(BALANCE_CACHE_SECONDS))
    /\ Return(t, r, UpstreamResult(EffectiveStatus(r), UpstreamErrorPayload(upCalls)))

\* No response at all (connection failure, timeout).
RespondTransport(t, r) ==
    /\ pc[t] = "call"
    /\ r.kind = "transport"
    /\ WriteError(UnreachablePayload(upCalls), 502, ErrorTtl(BALANCE_CACHE_SECONDS))
    /\ Return(t, r, UpstreamResult(502, UnreachablePayload(upCalls)))

Respond(t, r) ==
    \/ RespondOk(t, r)
    \/ RespondBadShape(t, r)
    \/ RespondNonJson(t, r)
    \/ RespondStale(t, r)
    \/ RespondRateLimited(t, r)
    \/ RespondHttpError(t, r)
    \/ RespondTransport(t, r)

Request(t) == RequestNotConfigured(t) \/ RequestHit(t) \/ RequestMiss(t)

Acquire(t) == AcquireHit(t) \/ AcquireMiss(t)

Next ==
    \/ Tick /\ UNCHANGED <<rlvars, smsvars, nmvars, lkvars>>
    \/ \E t \in Threads : Request(t) /\ UNCHANGED <<rlvars, smsvars, nmvars, lkvars>>
    \/ \E t \in Threads : Acquire(t) /\ UNCHANGED <<rlvars, smsvars, nmvars, lkvars>>
    \/ \E t \in Threads, r \in Responses : Respond(t, r) /\ UNCHANGED <<rlvars, smsvars, nmvars, lkvars>>

Spec == Init /\ [][Next]_vars

\* One worker thread, one request at a time, every upstream reply shape.
NextSeq ==
    \/ Tick /\ UNCHANGED <<rlvars, smsvars, nmvars, lkvars>>
    \/ Request(1) /\ UNCHANGED <<rlvars, smsvars, nmvars, lkvars>>
    \/ AcquireMiss(1) /\ UNCHANGED <<rlvars, smsvars, nmvars, lkvars>>
    \/ \E r \in RichResponses : Respond(1, r) /\ UNCHANGED <<rlvars, smsvars, nmvars, lkvars>>

SpecSeq == InitSeq /\ [][NextSeq]_vars

\* The long run: one worker thread, one request at a time, the next request
\* made at once or one of these spans of seconds after the previous response.
Spans == {1, 4, 5, 9, 10, 29, 30}

\* The upstream replies of the long run: a balance, no response, a 429 and
\* another HTTP error.
SpanResponses ==
    {OkJson, Transport, HttpError(429, NoHeader, PlainBody),
     HttpError(503, NoHeader, PlainBody)}

\* Time passes after a response, `seconds` at once.
Sleep(seconds) ==
    /\ last.thread # 0
    /\ reqs < MaxRequests
    /\ clock' = clock + seconds
    /\ last' = NoResult
    /\ UNCHANGED <<BALANCE_CACHE_SECONDS, SEMAPHORE_API_KEY, balance_cache,
                   balance_error_cache, balance_fetch_lock, pc, now,
                   upCalls, reqs, covered, wrote, freshAt>>

NextSpan ==
    \/ \E seconds \in Spans : Sleep(seconds) /\ UNCHANGED <<rlvars, smsvars, nmvars, lkvars>>
    \/ Request(1) /\ UNCHANGED <<rlvars, smsvars, nmvars, lkvars>>
    \/ AcquireMiss(1) /\ UNCHANGED <<rlvars, smsvars, nmvars, lkvars>>
    \/ \E r \in SpanResponses : Respond(1, r) /\ UNCHANGED <<rlvars, smsvars, nmvars, lkvars>>

SpecSpan == InitSeq /\ [][NextSpan]_vars

\* ---------------------------------------------------------------- the two locks
\* get_sms_balance step by step: _balance_cache_lock is a variable, taking a
\* lock, the section under it and the upstream call are steps of their own,
\* and a step that needs a lock is enabled only while the lock is free.

\* The seconds that pass between two steps: enough for a success stored for
\* two seconds to expire, and enough for every error entry but a rate limit
\* of sixty seconds.
LockSpans == {2, 30}

\* The ends of an upstream call: an account record, a 2xx reply that is none,
\* no reply in time, a rate limit and another HTTP error.
LockResponses ==
    {OkJson, OkBad, Transport, HttpError(429, NoHeader, PlainBody),
     HttpError(503, NoHeader, PlainBody)}

\* The handler starts: the API key is present and `now` is read.
BalanceBegin(t) ==
    /\ pc[t] = "idle"
    /\ reqs < MaxRequests
    /\ SEMAPHORE_API_KEY # ""
    /\ reqs' = reqs + 1
    /\ now' = [now EXCEPT ![t] = clock]
    /\ pc' = [pc EXCEPT ![t] = "enter"]
    /\ last' = NoResult
    /\ UNCHANGED <<clock, BALANCE_CACHE_SECONDS, SEMAPHORE_API_KEY, balance_cache,
                   balance_error_cache, balance_fetch_lock, upCalls, covered, wrote, freshAt>>
    /\ UNCHANGED lkvars

\* `with _balance_cache_lock:` of the first check.
LockCacheFirst(t) ==
    /\ pc[t] = "enter"
    /\ balance_cache_lock = 0
    /\ balance_cache_lock' = t
    /\ pc' = [pc EXCEPT ![t] = "first"]
    /\ last' = NoResult
    /\ UNCHANGED <<clock, BALANCE_CACHE_SECONDS, SEMAPHORE_API_KEY, balance_cache,
                   balance_error_cache, balance_fetch_lock, now, upCalls, reqs,
                   covered, wrote, freshAt, reply, copied>>

\* The first check finds a live entry: it is returned, the cache lock released.
FirstCheckHit(t) ==
    /\ pc[t] = "first"
    /\ CacheHit(now[t])
    /\ last' = Returned(t, CachedResponse(now[t]), "fast")
    /\ pc' = [pc EXCEPT ![t] = "idle"]
    /\ now' = [now EXCEPT ![t] = 0]
    /\ balance_cache_lock' = 0
    /\ UNCHANGED <<clock, BALANCE_CACHE_SECONDS, SEMAPHORE_API_KEY, balance_cache,
                   balance_error_cache, balance_fetch_lock, upCalls, reqs,
                   covered, wrote, freshAt, reply, copied>>

\* FirstCheckMiss leaving the section without releasing the cache lock.
FirstCheckMissKeepingLock(t) ==
    /\ pc[t] = "first"
    /\ ~CacheHit(now[t])
    /\ pc' = [pc EXCEPT ![t] = "wait"]
    /\ covered' = [covered EXCEPT ![t] = InFlight]
    /\ last' = NoResult
    /\ UNCHANGED <<clock, BALANCE_CACHE_SECONDS, SEMAPHORE_API_KEY, balance_cache,
                   balance_error_cache, balance_fetch_lock, now, upCalls, reqs,
                   wrote, freshAt, balance_cache_lock, reply, copied>>

\* The first check finds nothing live: the cache lock is released and the
\* thread goes on to the fetch lock.
FirstCheckMiss(t) ==
    /\ pc[t] = "first"
    /\ ~CacheHit(now[t])
    /\ pc' = [pc EXCEPT ![t] = "wait"]
    /\ balance_cache_lock' = 0
    /\ covered' = [covered EXCEPT ![t] = InFlight]
    /\ last' = NoResult
    /\ UNCHANGED <<clock, BALANCE_CACHE_SECONDS, SEMAPHORE_API_KEY, balance_cache,
                   balance_error_cache, balance_fetch_lock, now, upCalls, reqs,
                   wrote, freshAt, reply, copied>>

\* `with _balance_fetch_lock:` and the second read of `now`.
LockFetch(t) ==
    /\ pc[t] = "wait"
    /\ balance_fetch_lock = 0
    /\ balance_fetch_lock' = t
    /\ now' = [now EXCEPT ![t] = clock]
    /\ pc' = [pc EXCEPT ![t] = "locked"]
    /\ last' = NoResult
    /\ UNCHANGED <<clock, BALANCE_CACHE_SECONDS, SEMAPHORE_API_KEY, balance_cache,
                   balance_error_cache, upCalls, reqs, covered, wrote, freshAt>>
    /\ UNCHANGED lkvars

\* `with _balance_cache_lock:` of the repeated check, the fetch lock held.
LockCacheSecond(t) ==
    /\ pc[t] = "locked"
    /\ balance_cache_lock = 0
    /\ balance_cache_lock' = t
    /\ pc' = [pc EXCEPT ![t] = "second"]
    /\ last' = NoResult
    /\ UNCHANGED <<clock, BALANCE_CACHE_SECONDS, SEMAPHORE_API_KEY, balance_cache,
                   balance_error_cache, balance_fetch_lock, now, upCalls, reqs,
                   covered, wrote, freshAt, reply, copied>>

\* The repeated check finds a live entry: the return leaves both `with`
\* blocks.
SecondCheckHit(t) ==
    /\ pc[t] = "second"
    /\ CacheHit(now[t])
    /\ last' = Returned(t, CachedResponse(now[t]), "postwait")
    /\ pc' = [pc EXCEPT ![t] = "idle"]
    /\ now' = [now EXCEPT ![t] = 0]
    /\ covered' = [covered EXCEPT ![t] = 0]
    /\ balance_cache_lock' = 0
    /\ balance_fetch_lock' = 0
    /\ UNCHANGED <<clock, BALANCE_CACHE_SECONDS, SEMAPHORE_API_KEY, balance_cache,
                   balance_error_cache, upCalls, reqs, wrote, freshAt, reply, copied>>

\* The repeated check misses: the cache lock is released and the upstream
\* call issued, the fetch lock still held.
SecondCheckMiss(t) ==
    /\ pc[t] = "second"
    /\ ~CacheHit(now[t])
    /\ balance_cache_lock' = 0
    /\ pc' = [pc EXCEPT ![t] = "call"]
    /\ upCalls' = upCalls + 1
    /\ covered' = [u \in Threads |->
           IF u # t /\ pc[u] = "wait" /\ covered[u] = 0 THEN upCalls + 1 ELSE covered[u]]
    /\ last' = NoResult
    /\ UNCHANGED <<clock, BALANCE_CACHE_SECONDS, SEMAPHORE_API_KEY, balance_cache,
                   balance_error_cache, balance_fetch_lock, now, reqs, wrote, freshAt,
                   reply, copied>>

\* requests.get(..., timeout=SEMAPHORE_TIMEOUT) ends: with a reply, or with
\* an exception when nothing arrived in time.
UpstreamReturns(t, r) ==
    /\ pc[t] = "call"
    /\ reply[t] = NoResponse
    /\ reply' = [reply EXCEPT ![t] = r]
    /\ last' = NoResult
    /\ UNCHANGED <<clock, BALANCE_CACHE_SECONDS, SEMAPHORE_API_KEY, balance_cache,
                   balance_error_cache, balance_fetch_lock, pc, now, upCalls, reqs,
                   covered, wrote, freshAt, balance_cache_lock, copied>>

\* The handling of r enters `with _balance_cache_lock:` - a success only with
\* a positive cache duration, a reply that is not an account record never.
TakesCacheLock(r) ==
    IF r.kind \in {"ok_json", "ok_nonjson"}
    THEN Max(BALANCE_CACHE_SECONDS, 0) > 0
    ELSE r.kind \in {"http", "transport"}

\* The handling of r copies the success entry under the cache lock before it
\* decides what to store.
CopiesCached(r) == r.kind = "http" /\ EffectiveStatus(r) = 429

\* `with _balance_cache_lock:` in the handling of the reply.
LockCacheHandling(t) ==
    /\ pc[t] = "call"
    /\ reply[t] # NoResponse
    /\ TakesCacheLock(reply[t])
    /\ balance_cache_lock = 0
    /\ balance_cache_lock' = t
    /\ last' = NoResult
    /\ UNCHANGED <<clock, BALANCE_CACHE_SECONDS, SEMAPHORE_API_KEY, balance_cache,
                   balance_error_cache, balance_fetch_lock, pc, now, upCalls, reqs,
                   covered, wrote, freshAt, reply, copied>>

\* The 429 handler copies the success entry and leaves the section.
CopyCached(t) ==
    /\ pc[t] = "call"
    /\ balance_cache_lock = t
    /\ CopiesCached(reply[t])
    /\ ~copied[t]
    /\ copied' = [copied EXCEPT ![t] = TRUE]
    /\ balance_cache_lock' = 0
    /\ last' = NoResult
    /\ UNCHANGED <<clock, BALANCE_CACHE_SECONDS, SEMAPHORE_API_KEY, balance_cache,
                   balance_error_cache, balance_fetch_lock, pc, now, upCalls, reqs,
                   covered, wrote, freshAt, reply>>

\* The entry is written under the cache lock and the response returned: the
\* return leaves the `with` block of the fetch lock too.
StoreAndReturn(t) ==
    /\ balance_cache_lock = t
    /\ CopiesCached(reply[t]) => copied[t]
    /\ Respond(t, reply[t])
    /\ balance_cache_lock' = 0
    /\ reply' = [reply EXCEPT ![t] = NoResponse]
    /\ copied' = [copied EXCEPT ![t] = FALSE]

\* A reply handled without the cache lock: nothing is stored.
HandleUnlocked(t) ==
    /\ reply[t] # NoResponse
    /\ ~TakesCacheLock(reply[t])
    /\ Respond(t, reply[t])
    /\ reply' = [reply EXCEPT ![t] = NoResponse]
    /\ UNCHANGED <<balance_cache_lock, copied>>

\* The steps of a request under way that need no input.
Proceed(t) ==
    \/ LockCacheFirst(t)
    \/ FirstCheckHit(t)
    \/ FirstCheckMiss(t)
    \/ LockFetch(t)
    \/ LockCacheSecond(t)
    \/ SecondCheckHit(t)
    \/ SecondCheckMiss(t)
    \/ LockCacheHandling(t)
    \/ CopyCached(t)
    \/ StoreAndReturn(t)
    \/ HandleUnlocked(t)

NextLocks ==
    \/ \E seconds \in LockSpans : Sleep(seconds) /\ UNCHANGED <<rlvars, smsvars, nmvars, lkvars>>
    \/ \E t \in Threads : RequestNotConfigured(t) /\ UNCHANGED <<rlvars, smsvars, nmvars, lkvars>>
    \/ \E t \in Threads : BalanceBegin(t) /\ UNCHANGED <<rlvars, smsvars, nmvars>>
    \/ \E t \in Threads : Proceed(t) /\ UNCHANGED <<rlvars, smsvars, nmvars>>
    \/ \E t \in Threads, r \in LockResponses : UpstreamReturns(t, r) /\ UNCHANGED <<rlvars, smsvars, nmvars>>

\* A thread that can take a step takes one, a lock that is free goes to a
\* thread waiting for it, and every upstream call ends: with a reply, or with
\* the timeout of requests.get.
Fairness ==
    \A t \in Threads :
        /\ WF_vars(Proceed(t) /\ UNCHANGED <<rlvars, smsvars, nmvars>>)
        /\ WF_vars(\E r \in LockResponses : UpstreamReturns(t, r) /\ UNCHANGED <<rlvars, smsvars, nmvars>>)

SpecLocks == Init /\ [][NextLocks]_vars /\ Fairness

\* ---------------------------------------------------------------- send_sms
\* A text of n characters, and one of n blanks.
Chars(n) == [i \in 1..n |-> "a"]
Blanks(n) == [i \in 1..n |-> " "]

\* ---------------------------------------------------------------- floats
\* A Python float: a finite value carried in thousandths, NaN, or an
\* infinity with its sign.
Finite(milli) == [cls |-> "finite", milli |-> milli]
NaN == [cls |-> "nan", milli |-> 0]
Infinity(sign) == [cls |-> "inf", milli |-> sign]

\* math.isfinite
IsFinite(x) == x.cls = "finite"

\* A float holds at most 309 decimal digits before the point: its largest
\* value is 1.8e308.
FitsFloat(digits) == digits <= 309

\* str.lower() on the letters of the words float() knows.
LowerChar(c) ==
    CASE c = "N" -> "n"
      [] c = "A" -> "a"
      [] c = "I" -> "i"
      [] c = "F" -> "f"
      [] c = "T" -> "t"
      [] c = "Y" -> "y"
      [] c = "E" -> "e"
      [] OTHER -> c

AllDigits(s) == \A i \in 1..Len(s) : IsDigit(s[i])

\* The digits of s without its leading zeros.
Significant(s) ==
    IF \A i \in 1..Len(s) : s[i] = "0" THEN <<>>
    ELSE LET first == CHOOSE k \in 1..Len(s) : s[k] # "0" /\ \A j \in 1..(k - 1) : s[j] = "0"
         IN  SubSeq(s, first, Len(s))

\* The position of the first c in s, 0 when there is none.
IndexOf(s, c) ==
    IF \A i \in 1..Len(s) : s[i] # c THEN 0
    ELSE CHOOSE k \in 1..Len(s) : s[k] = c /\ \A j \in 1..(k - 1) : s[j] # c

RECURSIVE Pow10(_)
Pow10(n) == IF n <= 0 THEN 1 ELSE 10 * Pow10(n - 1)

\* The value in thousandths of the decimal ip.fp times 10^exp; digits beyond
\* the thousandths are dropped.
Unscaled(ip, fp) ==
    DecimalValue(Significant(ip)) * 1000 + DecimalValue(SubSeq(fp \o <<"0", "0", "0">>, 1, 3))

Thousandths(ip, fp, exp) ==
    IF exp >= 0 THEN Unscaled(ip, fp) * Pow10(exp) ELSE Unscaled(ip, fp) \div Pow10(0 - exp)

\* The characters of s before its first c (all of s when it has none), and
\* those after it.
Before(s, c) == IF IndexOf(s, c) = 0 THEN s ELSE SubSeq(s, 1, IndexOf(s, c) - 1)
After(s, c) == IF IndexOf(s, c) = 0 THEN <<>> ELSE SubSeq(s, IndexOf(s, c) + 1, Len(s))

\* An optional sign in front of s.
Signed(s) == s # <<>> /\ Head(s) \in {"-", "+"}
SignOf(s) == IF s # <<>> /\ Head(s) = "-" THEN 0 - 1 ELSE 1
Unsigned(s) == IF Signed(s) THEN Tail(s) ELSE s

\* The exponent part of a decimal: what follows the e, or 0.
ExponentText(body) == IF IndexOf(body, "e") = 0 THEN <<"0">> ELSE After(body, "e")

\* digits, optionally a point and digits, optionally an exponent.
IsDecimal(mantissa, exptext) ==
    /\ AllDigits(Before(mantissa, "."))
    /\ AllDigits(After(mantissa, "."))
    /\ Len(Before(mantissa, ".")) + Len(After(mantissa, ".")) > 0
    /\ Unsigned(exptext) # <<>>
    /\ AllDigits(Unsigned(exptext))

\* The float of the decimal ip.fp times 10^exp: a decimal too large for a
\* float is an infinity.
DecimalFloat(sign, ip, fp, exp) ==
    IF Significant(ip \o fp) = <<>> THEN Finite(0)
    ELSE IF ~FitsFloat(Len(Significant(ip)) + exp) THEN Infinity(sign)
    ELSE Finite(sign * Thousandths(ip, fp, exp))

\* float() of the lower-cased text behind the sign.
ParseUnsigned(sign, body) ==
    IF body = <<"n", "a", "n">> THEN [ok |-> TRUE, val |-> NaN]
    ELSE IF body \in {<<"i", "n", "f">>, <<"i", "n", "f", "i", "n", "i", "t", "y">>}
    THEN [ok |-> TRUE, val |-> Infinity(sign)]
    ELSE IF ~IsDecimal(Before(body, "e"), ExponentText(body))
    THEN [ok |-> FALSE, val |-> Finite(0)]
    ELSE [ok |-> TRUE,
          val |-> DecimalFloat(sign, Before(Before(body, "e"), "."),
                               After(Before(body, "e"), "."),
                               SignOf(ExponentText(body))
                                   * DecimalValue(Unsigned(ExponentText(body))))]

LowerChars(s) == [i \in 1..Len(s) |-> LowerChar(s[i])]

\* float(text): blanks stripped, an optional sign, then nan, inf, infinity in
\* any case, or a decimal with an optional exponent; anything else raises
\* ValueError (ok = FALSE).
ParseFloat(text) == ParseUnsigned(SignOf(Strip(text)), LowerChars(Unsigned(Strip(text))))

\* A JSON number without fraction or exponent decodes to an int, any other
\* (NaN and Infinity included) to a float.
IsIntLiteral(literal) ==
    LET digits == IF literal # <<>> /\ Head(literal) = "-" THEN Tail(literal) ELSE literal
    IN  digits # <<>> /\ AllDigits(digits)

\* bool(number)
NonZero(literal) ==
    IF IsIntLiteral(literal) THEN \E i \in 1..Len(literal) : literal[i] \notin {"0", "-"}
    ELSE ParseFloat(literal).val # Finite(0)

\* bool(value) of a decoded JSON value
Truthy(v) ==
    CASE v.tag = "null" -> FALSE
      [] v.tag = "num" -> NonZero(v.s)
      [] v.tag = "bool" -> v.s = <<"True">>
      [] v.tag = "str" -> v.s # <<>>
      [] v.tag = "list" -> v.elems # <<>>
      [] v.tag = "dict" -> v.items # <<>>

\* a or b
Or(a, b) == IF Truthy(a) THEN a ELSE b

RECURSIVE Split(_)
\* text.split(",")
Split(s) ==
    IF \A i \in 1..Len(s) : s[i] # "," THEN <<s>>
    ELSE LET i == CHOOSE j \in 1..Len(s) : s[j] = "," /\ \A k \in 1..(j - 1) : s[k] # ","
         IN  <<SubSeq(s, 1, i - 1)>> \o Split(SubSeq(s, i + 1, Len(s)))

RECURSIVE JoinComma(_)
\* ",".join(parts)
JoinComma(parts) ==
    IF parts = <<>> THEN <<>>
    ELSE IF Len(parts) = 1 THEN parts[1]
    ELSE parts[1] \o <<",">> \o JoinComma(Tail(parts))

\* _normalise_recipients
NormaliseRecipients(raw_numbers) ==
    CASE raw_numbers.tag = "null" -> <<>>
      [] raw_numbers.tag = "str" ->
             LET segments == Split(raw_numbers.s)
                 stripped == [i \in 1..Len(segments) |-> Strip(segments[i])]
             IN  JoinComma(SelectSeq(stripped, LAMBDA segment : segment # <<>>))
      [] raw_numbers.tag = "list" ->
             LET stripped == [i \in 1..Len(raw_numbers.elems) |->
                                 Strip(PyStr(raw_numbers.elems[i]))]
             IN  JoinComma(SelectSeq(stripped, LAMBDA item : item # <<>>))
      [] OTHER -> Strip(PyStr(raw_numbers))

\* The message is text, or absent.
SmsMessages ==
    {JNull, JStr(<<>>), JStr(Blanks(2)), JStr(Chars(1)), JStr(Chars(160)),
     JStr(Chars(161)), JStr(Chars(160) \o Blanks(1)), JStr(Blanks(160)),
     JStr(Blanks(1) \o Chars(161))}

SmsSenders == {JNull, JStr(Chars(12))}

\* The recipients as the request may carry them: at most one field is set,
\* or `number` is empty and `numbers` holds them.
SmsNumberFields ==
    {<<n, JNull, JNull>> :
        n \in {JNull, JStr(<<>>), JStr(<<" ", ",", " ">>),
               JStr(<<"0917", ",", " ", "0918", ",">>), JList(<<>>),
               JList(<<JStr(<<" ">>)>>), JList(<<JStr(<<"0917">>), JNum>>), JNum}}
    \cup {<<JStr(<<>>), JList(<<JStr(<<"0917">>)>>), JNull>>,
          <<JNull, JNull, JStr(<<"0917">>)>>}

SmsPayloads ==
    {SmsPayload(m, s, f[1], f[2], f[3]) :
        m \in SmsMessages, s \in SmsSenders, f \in SmsNumberFields}

\* The provider's replies to the POST.
SmsResponses ==
    {OkJson, OkNonJson, Transport,
     HttpError(429, Hdr(TRUE, <<"1", "2">>), PlainBody),
     HttpError(503, NoHeader, TextBody(<<"x">>))}

\* text.strip() of a field: AttributeError (ok = FALSE) when it is not text.
StripField(v) ==
    IF v.tag = "str" THEN [ok |-> TRUE, s |-> Strip(v.s)]
    ELSE IF ~Truthy(v) THEN [ok |-> TRUE, s |-> <<>>]
    ELSE [ok |-> FALSE, s |-> <<>>]

SEMAPHORE_SENDER_NAME == <<"SEMAPHORE">>

\* What send_sms answers once the upstream reply r is in.
SmsUpstreamResult(r) ==
    CASE r.kind = "ok_json" -> SmsResult(200, "provider", {}, FALSE)
      [] r.kind = "ok_nonjson" -> SmsResult(200, "raw", {"success", "raw"}, TRUE)
      [] r.kind = "http" -> SmsResult(r.status, "upstream_error", {"success", "error"}, FALSE)
      [] OTHER -> SmsResult(502, "unreachable", {"success", "error"}, FALSE)

\* send_sms checking the message before the recipients.
SmsValidationMessageFirst(recipients, message) ==
    IF message = <<>> THEN "MissingMessage"
    ELSE IF Len(message) > 160 THEN "MessageTooLong"
    ELSE IF recipients = <<>> THEN "MissingRecipients"
    ELSE "ok"

\* send_sms rejecting a message of 160 characters.
SmsValidationOffByOne(recipients, message) ==
    IF recipients = <<>> THEN "MissingRecipients"
    ELSE IF message = <<>> THEN "MissingMessage"
    ELSE IF Len(message) >= 160 THEN "MessageTooLong"
    ELSE "ok"

\* The three checks of send_sms, in its order.
SmsValidation(recipients, message) ==
    IF recipients = <<>> THEN "MissingRecipients"
    ELSE IF message = <<>> THEN "MissingMessage"
    ELSE IF Len(message) > 160 THEN "MessageTooLong"
    ELSE "ok"

\* The form send_sms posts for `payload`.
SmsForm(payload) ==
    LET sender == StripField(payload.sender).s
        sender_name == IF sender = <<>> THEN SEMAPHORE_SENDER_NAME ELSE sender
    IN  [number |-> NormaliseRecipients(Or(Or(payload.number, payload.numbers),
                                           payload.recipients)),
         message |-> StripField(payload.message).s,
         sendername |-> SubSeq(sender_name, 1, Min(11, Len(sender_name)))]

\* SmsVerdict validating before it looks for the API key.
SmsVerdictValidationFirst(payload) ==
    IF ~StripField(payload.message).ok \/ ~StripField(payload.sender).ok
    THEN "internal_error"
    ELSE IF SmsValidation(SmsForm(payload).number, SmsForm(payload).message) # "ok"
    THEN SmsValidation(SmsForm(payload).number, SmsForm(payload).message)
    ELSE IF SEMAPHORE_API_KEY = "" THEN "not_configured"
    ELSE "ok"

\* How send_sms deals with the request body `payload` before any upstream
\* call: "ok" when it goes on to post.  An exception leaving the view
\* ("internal_error") is answered by the 500 handler.
SmsVerdict(payload) ==
    IF SEMAPHORE_API_KEY = "" THEN "not_configured"
    ELSE IF ~StripField(payload.message).ok \/ ~StripField(payload.sender).ok
    THEN "internal_error"
    ELSE SmsValidation(SmsForm(payload).number, SmsForm(payload).message)

\* send_sms up to its upstream call: the request is answered at once, or
\* the form is posted.
send_sms(payload) ==
    /\ sms_pc = "idle"
    /\ LET verdict == SmsVerdict(payload)
       IN  CASE verdict = "ok" ->
                    /\ sms_pc' = "posting"
                    /\ sms_last' = [SmsResult(0, "posting", {}, FALSE) EXCEPT
                                       !.payload = payload, !.calls = 1,
                                       !.posted = SmsForm(payload)]
             [] verdict = "not_configured" ->
                    /\ sms_pc' = "done"
                    /\ sms_last' = [SmsResult(500, verdict, {"success", "error"}, FALSE)
                                       EXCEPT !.payload = payload]
             [] verdict = "internal_error" ->
                    /\ sms_pc' = "done"
                    /\ sms_last' = [SmsResult(500, verdict, {"error"}, FALSE)
                                       EXCEPT !.payload = payload]
             [] OTHER ->
                    /\ sms_pc' = "done"
                    /\ sms_last' = [SmsResult(400, verdict, {"success", "error"}, FALSE)
                                       EXCEPT !.payload = payload]
    /\ UNCHANGED <<gwvars, rlvars, nmvars, lkvars>>

\* The upstream call of send_sms ends with r and the request is answered.
send_sms_reply(r) ==
    /\ sms_pc = "posting"
    /\ sms_pc' = "done"
    /\ sms_last' = [SmsUpstreamResult(r) EXCEPT
                       !.payload = sms_last.payload, !.calls = sms_last.calls,
                       !.posted = sms_last.posted, !.up = r]
    /\ UNCHANGED <<gwvars, rlvars, nmvars, lkvars>>

\* The worker is free for the next request.
send_sms_done ==
    /\ sms_pc = "done"
    /\ sms_pc' = "idle"
    /\ sms_last' = NoSms
    /\ UNCHANGED <<gwvars, rlvars, nmvars, lkvars>>

\* The process serving send-sms requests one at a time, and balance requests
\* while no API key is configured.
InitSms ==
    /\ BALANCE_CACHE_SECONDS = 60
    /\ SEMAPHORE_API_KEY \in {"", "key"}
    /\ GatewayStart
    /\ LimiterStart
    /\ limits = DefaultLimits
    /\ SmsStart
    /\ NormStart
    /\ LockStart

NextSms ==
    \/ \E payload \in SmsPayloads : send_sms(payload)
    \/ \E r \in SmsResponses : send_sms_reply(r)
    \/ send_sms_done
    \/ \E t \in Threads : RequestNotConfigured(t) /\ UNCHANGED <<rlvars, smsvars, nmvars, lkvars>>

SpecSms == InitSms /\ [][NextSms]_vars

\* ---------------------------------------------------------------- _build_balance_payload
\* The outcome of a call: the exception escaping it ("" when none) and the
\* value returned.
NormReturns(value) == [raised |-> "", payload |-> value]
NormRaises(exception) == [raised |-> exception, payload |-> JNull]

Key(name) == <<name>>

\* dict.get(key): the value of the last item decoded under the key, else None.
Get(d, name) ==
    IF \A i \in 1..Len(d.items) : d.items[i].k # Key(name) THEN JNull
    ELSE LET at == CHOOSE i \in 1..Len(d.items) :
                       /\ d.items[i].k = Key(name)
                       /\ \A j \in (i + 1)..Len(d.items) : d.items[j].k # Key(name)
         IN  d.items[at].v

\* float(value): the float, or the exception raised.
PyFloat(value) ==
    CASE value.tag = "bool" ->
             [raised |-> "", val |-> IF value.s = <<"True">> THEN Finite(1000) ELSE Finite(0)]
      [] value.tag = "num" ->
             IF ~IsIntLiteral(value.s) THEN [raised |-> "", val |-> ParseFloat(value.s).val]
             ELSE IF ~FitsFloat(Len(Significant(IF Head(value.s) = "-" THEN Tail(value.s)
                                                                          ELSE value.s)))
             THEN [raised |-> "OverflowError", val |-> Finite(0)]
             ELSE [raised |-> "", val |-> ParseFloat(value.s).val]
      [] value.tag = "str" ->
             IF ParseFloat(value.s).ok THEN [raised |-> "", val |-> ParseFloat(value.s).val]
             ELSE [raised |-> "ValueError", val |-> Finite(0)]
      [] OTHER -> [raised |-> "TypeError", val |-> Finite(0)]

\* _to_float: TypeError and ValueError give 0.0, any other exception escapes.
ToFloat(value) ==
    LET converted == PyFloat(value)
    IN  IF converted.raised \in {"TypeError", "ValueError"}
        THEN [raised |-> "", val |-> Finite(0)]
        ELSE converted

\* The record the first statement picks from the decoded body.
AccountData(raw_payload) ==
    CASE raw_payload.tag = "list" ->
             IF raw_payload.elems # <<>> THEN raw_payload.elems[1] ELSE JDict(<<>>)
      [] raw_payload.tag = "dict" -> Or(Get(raw_payload, "account"), raw_payload)
      [] OTHER -> JDict(<<>>)

AccountSummary(account_data) ==
    [id |-> Or(Get(account_data, "account_id"), Get(account_data, "id")),
     name |-> Or(Or(Get(account_data, "account_name"), Get(account_data, "name")),
                 JStr(<<>>)),
     status |-> Or(Or(Get(account_data, "status"), Get(account_data, "account_status")),
                   JStr(<<"unknown">>)),
     email |-> Or(Get(account_data, "email"), JStr(<<>>)),
     sender |-> Or(Or(Get(account_data, "sendername"), Get(account_data, "sender_name")),
                   JStr(SEMAPHORE_SENDER_NAME))]

\* The value the balance fields give to _to_float.
BalanceField(account_data) ==
    Or(Or(Or(Get(account_data, "balance"), Get(account_data, "credit_balance")),
          Get(account_data, "credits")),
       JNumber(<<"0">>))

\* `if not math.isfinite(balance_value): balance_value = 0.0`
FiniteOrZero(balance_value) == IF ~IsFinite(balance_value) THEN Finite(0) ELSE balance_value

\* The function from the conversion of the balance on.
BuildFromBalance(raw_payload, account_data, converted) ==
    IF converted.raised # "" THEN NormRaises(converted.raised)
    ELSE NormReturns([success |-> TRUE, balance |-> FiniteOrZero(converted.val),
                      account |-> AccountSummary(account_data), raw |-> raw_payload,
                      stale |-> FALSE,
                      keys |-> {"success", "balance", "account", "raw", "stale",
                                "retrieved_at"}])

\* The function from the first account_data.get on: of a value that is no
\* dict it raises AttributeError.
BuildFromAccount(raw_payload, account_data) ==
    IF account_data.tag # "dict" THEN NormRaises("AttributeError")
    ELSE BuildFromBalance(raw_payload, account_data, ToFloat(BalanceField(account_data)))

\* _build_balance_payload(raw_payload)
build_balance_payload(raw_payload) == BuildFromAccount(raw_payload, AccountData(raw_payload))

\* The three shapes the provider gives an account record.
Wrapped(record) == JDict(<<Item(Key("account"), record)>>)
Listed(record) == JList(<<record>>)

Text(word) == JStr(<<word>>)

\* A numeral of 400 digits.
HugeNumeral == <<"1">> \o [i \in 1..399 |-> "0"]

\* The values a balance field is given.
BalanceValues ==
    {JStr(<<"1", "2", ".", "5">>), JStr(<<" ", "7", " ">>), JStr(<<"n", "a", "n">>),
     JStr(<<"N", "a", "N">>), JStr(<<"i", "n", "f">>),
     JStr(<<"-", "I", "n", "f", "i", "n", "i", "t", "y">>), JStr(<<"1", "e", "9", "9", "9">>),
     JStr(<<"2", "e", "1">>), JStr(<<"a", "b", "c">>), JStr(<<"1", ".", "2", ".", "3">>),
     JStr(<<>>), JStr(HugeNumeral),
     JNumber(<<"0">>), JNumber(<<"7">>), JNumber(<<"-", "3">>), JNumber(<<"0", ".", "0">>),
     JNumber(<<"1", "2", ".", "5">>), JNumber(<<"N", "a", "N">>),
     JNumber(<<"I", "n", "f", "i", "n", "i", "t", "y">>),
     JNumber(<<"-", "I", "n", "f", "i", "n", "i", "t", "y">>),
     JNumber(<<"1", "e", "9", "9", "9">>), JNumber(HugeNumeral),
     JNull, JBool(TRUE), JBool(FALSE), JList(<<>>), JList(<<JNumber(<<"7">>)>>),
     JDict(<<Item(Key("amount"), JNumber(<<"7">>))>>)}

\* The account records explored: one balance field; a balance field before a
\* second one; the descriptive fields under either of their names; a record
\* that has a field named account itself.
AccountRecords ==
    {JDict(<<Item(Key(name), b)>>) :
        name \in {"balance", "credit_balance", "credits"}, b \in BalanceValues}
    \cup {JDict(<<Item(Key("balance"), b), Item(Key("credits"), JNumber(<<"7">>))>>) :
             b \in BalanceValues}
    \cup {JDict(<<>>),
          JDict(<<Item(Key("account_id"), JNumber(<<"7">>)), Item(Key("id"), JNumber(<<"3">>)),
                  Item(Key("account_name"), Text("jeep")), Item(Key("status"), Text("active")),
                  Item(Key("email"), Text("a@b")), Item(Key("sendername"), Text("JEEP")),
                  Item(Key("balance"), JStr(<<"1", "2", ".", "5">>))>>),
          JDict(<<Item(Key("account_id"), JNumber(<<"0">>)), Item(Key("id"), JNumber(<<"3">>)),
                  Item(Key("name"), Text("jeep")), Item(Key("account_status"), Text("off")),
                  Item(Key("email"), JNull), Item(Key("sender_name"), Text("JEEP"))>>),
          JDict(<<Item(Key("id"), JNumber(<<"0">>)), Item(Key("name"), JStr(<<>>)),
                  Item(Key("status"), JStr(<<>>)), Item(Key("sendername"), JStr(<<>>))>>),
          JDict(<<Item(Key("account"), Text("main")),
                  Item(Key("balance"), JStr(<<"1", "2", ".", "5">>))>>),
          JDict(<<Item(Key("account"), JDict(<<Item(Key("balance"), JNumber(<<"7">>))>>)),
                  Item(Key("balance"), JStr(<<"1", "2", ".", "5">>))>>),
          JDict(<<Item(Key("account"), JDict(<<>>)),
                  Item(Key("balance"), JStr(<<"1", "2", ".", "5">>))>>)}

\* The decoded bodies explored: every record in its three shapes, and the
\* bodies that hold no record.
DecodedBodies ==
    AccountRecords
    \cup {Wrapped(record) : record \in AccountRecords}
    \cup {Listed(record) : record \in AccountRecords}
    \cup {JNull, Text("ok"), JStr(<<>>), JNumber(<<"7">>), JNumber(<<"0">>), JBool(TRUE),
          JList(<<>>), JList(<<JNull>>), JList(<<Text("ok")>>), JList(<<JNumber(<<"7">>)>>),
          JList(<<JList(<<>>)>>), JList(<<JBool(FALSE)>>),
          Wrapped(JNull), Wrapped(Text("main")), Wrapped(JStr(<<>>)),
          Wrapped(JNumber(<<"7">>)), Wrapped(JNumber(<<"0">>)), Wrapped(JBool(TRUE)),
          Wrapped(JList(<<>>)), Wrapped(JList(<<JDict(<<>>)>>))}

\* response.json() has given raw_payload; the call is made and returns or raises.
CallBuildBalancePayload ==
    /\ norm_call.pc = "decoded"
    /\ norm_call' = [pc |-> "called", raw_payload |-> norm_call.raw_payload,
                     result |-> build_balance_payload(norm_call.raw_payload)]
    /\ UNCHANGED <<gwvars, rlvars, smsvars, lkvars>>

\* The process with one 2xx body decoded, about to be normalised.
InitNorm ==
    /\ BALANCE_CACHE_SECONDS = 60
    /\ SEMAPHORE_API_KEY = "key"
    /\ GatewayStart
    /\ LimiterStart
    /\ limits = DefaultLimits
    /\ SmsStart
    /\ LockStart
    /\ \E raw_payload \in DecodedBodies :
           norm_call = [NoNormCall EXCEPT !.pc = "decoded", !.raw_payload = raw_payload]

NextNorm == CallBuildBalancePayload

SpecNorm == InitNorm /\ [][NextNorm]_vars

\* ================================================================ claims
\* An entry written at `timestamp` with ttl `ttl` is unexpired at time t.
Unexpired(timestamp, ttl, t) == ttl > 0 /\ t < timestamp + ttl

\* The entry stored by the handling of upstream call c is unexpired at t.
StoredLive(c, t) ==
    wrote[c].entry # "none" /\ Unexpired(wrote[c].timestamp, wrote[c].ttl, t)

\* C1 as stated: of the requests that run concurrently and all miss at their
\* first check, only one issues an upstream call, and every other one
\* returns the result of that call from the cache at its re-check.
C1_SingleFlightAsStated ==
    /\ \A u \in Threads : pc[u] = "call" => covered[u] = 0
    /\ last.covered # 0 =>
           last.via = "postwait" /\ last.payload.origin = last.covered

\* C1 (amended): a request that missed at its first check while another
\* request's upstream call was pending or still to be issued, and whose
\* re-check after acquiring the fetch lock is made while the entry stored by
\* that call's handling is unexpired, issues no upstream call and returns
\* that call's result from the cache.
C1_SingleFlight ==
    /\ \A u \in Threads :
           pc[u] = "call" /\ covered[u] # 0 => ~StoredLive(covered[u], now[u])
    /\ last.covered # 0 /\ last.via # "upstream" /\ StoredLive(last.covered, clock) =>
           last.via = "postwait" /\ last.payload.origin = last.covered

C1_Witness ==
    /\ last.covered # 0
    /\ last.via = "postwait"
    /\ last.payload.origin = last.covered
    /\ StoredLive(last.covered, clock)
    /\ clock > wrote[last.covered].timestamp

\* C2: at most one upstream account call is in flight, and the thread
\* making it holds the fetch lock.
C2_OneInFlight ==
    /\ Cardinality({t \in Threads : pc[t] = "call"}) <= 1
    /\ \A t \in Threads : pc[t] = "call" => balance_fetch_lock = t
    /\ balance_fetch_lock # 0 => pc[balance_fetch_lock] = "call"

C2_Witness ==
    \E t, u \in Threads : pc[t] = "call" /\ pc[u] = "wait" /\ clock > now[t]

\* A step in which some request checks the cache: its first check, or the
\* re-check after the fetch lock.
CheckStep ==
    \/ reqs' = reqs + 1 /\ SEMAPHORE_API_KEY # ""
    \/ \E t \in Threads : pc[t] = "wait" /\ pc'[t] # "wait"

\* C3: a request that checks the cache at a time before capturedAt + T of the
\* stored success entry (T > 0) returns exactly the stored payload and status
\* and issues no upstream call; one that checks at or after capturedAt + T is
\* not served the success entry.
C3_TtlExpiry ==
    [][CheckStep =>
          IF balance_cache.payload # NoPayload
             /\ Unexpired(balance_cache.timestamp, balance_cache.ttl, clock)
          THEN /\ last'.via \in {"fast", "postwait"}
               /\ last'.payload = balance_cache.payload
               /\ last'.status = balance_cache.status
               /\ upCalls' = upCalls
               /\ balance_cache' = balance_cache
          ELSE last'.via \in {"fast", "postwait"} =>
                   /\ last'.payload # balance_cache.payload
                   /\ last'.payload = balance_error_cache.payload
      ]_vars

\* A success entry served in the last second of its life, and not the first.
C3_Witness ==
    /\ last.via = "fast"
    /\ last.payload = balance_cache.payload
    /\ clock = balance_cache.timestamp + balance_cache.ttl - 1
    /\ clock > balance_cache.timestamp

\* The step just taken handled the upstream reply of a balance call.
Handled(resp) == resp.via = "upstream"

\* A response that treats the upstream reply as a 429: the stale fallback,
\* or status 429 itself.
HandledAs429(resp) ==
    \/ resp.status = 200 /\ resp.payload.stale
    \/ resp.status = 429

\* C4: an effective 429 while the success entry still holds a payload gives
\* HTTP 200 with that payload marked stale, a retry_after, and
\* last_updated_seconds_ago = the seconds since the last fresh fetch; the
\* payload is stored again as the success entry with ttl = retry_after.
C4_StaleFallback ==
    [][(/\ Handled(last')
        /\ last'.up.kind = "http"
        /\ EffectiveStatus(last'.up) = 429
        /\ balance_cache.payload # NoPayload)
       =>
       (/\ last'.status = 200
        /\ last'.payload =
               [balance_cache.payload EXCEPT
                   !.keys = @ \cup {"stale", "success", "note", "retry_after",
                                    "last_updated_seconds_ago"},
                   !.stale = TRUE, !.success = TRUE,
                   !.retry_after = last'.payload.retry_after,
                   !.last_updated_seconds_ago = clock - freshAt,
                   !.origin = upCalls]
        /\ balance_cache'.payload = last'.payload
        /\ balance_cache'.status = 200
        /\ balance_cache'.timestamp = clock
        /\ balance_cache'.ttl = last'.payload.retry_after)
      ]_vars

\* A second stale fallback in a row, served after the entry's own TTL.
C4_Witness ==
    /\ Handled(last)
    /\ last.status = 200
    /\ last.payload.stale
    /\ last.payload.last_updated_seconds_ago = clock - freshAt
    /\ last.payload.last_updated_seconds_ago >= BALANCE_CACHE_SECONDS + 5

\* C5: an effective 429 with no previous success payload stores an error
\* entry with status 429 and ttl = retry_after and returns 429, success:false
\* and retry_after; while that entry is unexpired every request returns it
\* from the cache and no upstream call is issued.
C5_HardRateLimit ==
    [][/\ (/\ Handled(last')
           /\ last'.up.kind = "http"
           /\ EffectiveStatus(last'.up) = 429
           /\ balance_cache.payload = NoPayload)
          =>
          (/\ last'.status = 429
           /\ {"success", "error", "retry_after"} \subseteq last'.payload.keys
           /\ ~last'.payload.success
           /\ balance_error_cache' =
                  [timestamp |-> clock, ttl |-> last'.payload.retry_after,
                   payload |-> last'.payload, status |-> 429]
           /\ balance_cache' = balance_cache)
       /\ (/\ CheckStep
           /\ balance_error_cache.payload # NoPayload
           /\ balance_error_cache.status = 429
           /\ Unexpired(balance_error_cache.timestamp, balance_error_cache.ttl, clock))
          =>
          (/\ last'.via \in {"fast", "postwait"}
           /\ last'.status = 429
           /\ last'.payload = balance_error_cache.payload
           /\ upCalls' = upCalls
           /\ balance_error_cache' = balance_error_cache)
      ]_vars

\* A cached 429 served to a waiting request in the last second of its TTL.
C5_Witness ==
    /\ last.via = "postwait"
    /\ last.status = 429
    /\ last.payload = balance_error_cache.payload
    /\ clock = balance_error_cache.timestamp + balance_error_cache.ttl - 1

RECURSIVE ContainsText(_)
\* Some string of the decoded body, at any depth, keys included, contains
\* "rate limit" in any letter case.
ContainsText(v) ==
    CASE v.tag = "str" -> HasRateLimit(Lower(v.s))
      [] v.tag = "list" -> \E i \in 1..Len(v.elems) : ContainsText(v.elems[i])
      [] v.tag = "dict" ->
             \E i \in 1..Len(v.items) :
                 HasRateLimit(Lower(v.items[i].k)) \/ ContainsText(v.items[i].v)
      [] OTHER -> FALSE

BodyContainsText(r) ==
    IF r.is_json THEN ContainsText(r.value) ELSE HasRateLimit(Lower(r.text))

\* The body is a JSON object in which one top-level string (a key, a value,
\* an element of a list value) ends in "rate" and the next begins with "limit".
RateLimitAcrossStrings(r) ==
    /\ r.is_json
    /\ r.value.tag = "dict"
    /\ LET frags == Fragments(r.value.items)
       IN  \E i \in 1..(Len(frags) - 1) :
               /\ frags[i] # <<>> /\ frags[i + 1] # <<>>
               /\ LowerSym(frags[i][Len(frags[i])]) = "rate"
               /\ LowerSym(frags[i + 1][1]) = "limit"

\* C6 as stated: an HTTP error with a status other than 429 is handled as a
\* 429 if it carries a Retry-After header or its body contains "rate limit";
\* with neither, it keeps its status.
C6_CoercionAsStated ==
    (Handled(last) /\ last.up.kind = "http" /\ last.up.status # 429) =>
        IF last.up.has_retry_after \/ BodyContainsText(last.up)
        THEN HandledAs429(last)
        ELSE last.status = last.up.status

\* A 503 without a Retry-After header whose body nowhere contains
\* "rate limit" is handled as a 429: "x rate" ends one top-level string and
\* "limit" begins the next.
C6_Witness ==
    /\ Handled(last)
    /\ last.up.kind = "http"
    /\ last.up.status = 503
    /\ ~last.up.has_retry_after
    /\ ~BodyContainsText(last.up)
    /\ RateLimitAcrossStrings(last.up)
    /\ last.status = 429

\* The Retry-After values explored that are integers, with their values.
HeaderIntegers ==
    {<<(<<"1", "2">>), 12>>, <<(<<"2">>), 2>>, <<(<<"-", "3">>), 0 - 3>>, <<(<<" ", "7">>), 7>>}

\* C7: on every effective 429 retry_after is the header's integer value if
\* it has one, else the configured cache TTL if > 0, else 30, and at least 5;
\* it is the ttl of the entry the request writes.
C7_RetryAfter ==
    (Handled(last) /\ last.up.kind = "http" /\ HandledAs429(last)) =>
        LET ints == {p \in HeaderIntegers :
                        last.up.has_retry_after /\ p[1] = last.up.retry_after_header}
            base == IF ints # {} THEN (CHOOSE p \in ints : TRUE)[2]
                    ELSE IF BALANCE_CACHE_SECONDS > 0 THEN BALANCE_CACHE_SECONDS
                    ELSE 30
            expected == IF base < 5 THEN 5 ELSE base
        IN  /\ "retry_after" \in last.payload.keys
            /\ last.payload.retry_after = expected
            /\ last.payload.retry_after >= 5
            /\ IF last.status = 200
               THEN balance_cache.ttl = expected /\ balance_cache.timestamp = clock
                    /\ balance_cache.payload = last.payload
               ELSE balance_error_cache.ttl = expected
                    /\ balance_error_cache.timestamp = clock
                    /\ balance_error_cache.payload = last.payload

\* A negative Retry-After raised to 5 on a stale fallback.
C7_Witness ==
    /\ Handled(last)
    /\ last.up.kind = "http"
    /\ last.up.retry_after_header = <<"-", "3">>
    /\ last.status = 200
    /\ last.payload.stale
    /\ last.payload.retry_after = 5
    /\ balance_cache.ttl = 5

\* C8: an upstream failure that is not an effective 429 returns the
\* upstream's status (502 when there was no response) with success:false and
\* stores an error entry with that status; while the entry is unexpired every
\* request returns it from the cache and no upstream call is issued.
C8_OtherErrors ==
    [][/\ (/\ Handled(last')
           /\ \/ last'.up.kind = "transport"
              \/ last'.up.kind = "http" /\ EffectiveStatus(last'.up) # 429)
          =>
          (/\ last'.status = IF last'.up.kind = "http" THEN last'.up.status ELSE 502
           /\ {"success", "error"} \subseteq last'.payload.keys
           /\ ~last'.payload.success
           /\ balance_error_cache'.status = last'.status
           /\ balance_error_cache'.payload = last'.payload
           /\ balance_error_cache'.timestamp = clock
           /\ balance_error_cache'.ttl > 0
           /\ balance_cache' = balance_cache)
       /\ (/\ CheckStep
           /\ balance_error_cache.payload # NoPayload
           /\ balance_error_cache.status # 429
           /\ Unexpired(balance_error_cache.timestamp, balance_error_cache.ttl, clock))
          =>
          (/\ last'.via \in {"fast", "postwait"}
           /\ last'.status = balance_error_cache.status
           /\ last'.payload = balance_error_cache.payload
           /\ upCalls' = upCalls
           /\ balance_error_cache' = balance_error_cache)
      ]_vars

\* A cached 503 served from the first check in the last second of its TTL.
C8_Witness ==
    /\ last.via = "fast"
    /\ last.status = 503
    /\ last.payload = balance_error_cache.payload
    /\ clock = balance_error_cache.timestamp + balance_error_cache.ttl - 1

\* x lies in the window of `window_seconds` seconds ending at t: after
\* t - window_seconds, not after t.
InWindow(x, t, window_seconds) == t - Seconds(window_seconds) < x /\ x <= t

\* The number of entries of `list` in that window.
CountInWindow(list, t, window_seconds) ==
    Cardinality({i \in 1..Len(list) : InWindow(list[i], t, window_seconds)})

\* C9: is_allowed(key, max_requests, window_seconds) at time now first drops
\* from the key's list every timestamp outside the window ending at now;
\* then with max_requests or more left it returns False and appends nothing,
\* else it appends now and returns True.  Afterwards every timestamp of the
\* key lies in the window, and after a True the list has at most
\* max_requests entries.  Calls are serialized by the lock, so this holds of
\* every call in every interleaving with other calls.
C9_Admit ==
    [][rl_last'.op = "is_allowed" =>
        LET key == rl_last'.key
            t == datetime_now
            before == IF key \in DOMAIN requests THEN requests[key] ELSE <<>>
            inside == SelectSeq(before,
                                LAMBDA x : InWindow(x, t, rl_last'.window_seconds))
        IN  /\ rl_last'.now = t
            /\ key \in DOMAIN requests'
            /\ IF Len(inside) >= rl_last'.max_requests
               THEN ~rl_last'.allowed /\ requests'[key] = inside
               ELSE rl_last'.allowed /\ requests'[key] = Append(inside, t)
            /\ \A i \in 1..Len(requests'[key]) :
                   InWindow(requests'[key][i], t, rl_last'.window_seconds)
            /\ rl_last'.allowed => Len(requests'[key]) <= rl_last'.max_requests
            /\ \A other \in DOMAIN requests \ {key} :
                   other \in DOMAIN requests' /\ requests'[other] = requests[other]
      ]_vars

\* A rejected call for a key of which two timestamps have been dropped and
\* one is left, another key being known too.
C9_Witness ==
    /\ rl_last.op = "is_allowed"
    /\ ~rl_last.allowed
    /\ rl_last.max_requests = 1
    /\ Len(accepted[rl_last.key]) = 3
    /\ Len(requests[rl_last.key]) = 1
    /\ \E other \in DOMAIN requests : other # rl_last.key

\* C10: with the same max_requests M and window W in every call, a call for
\* a key at time now is accepted iff fewer than M earlier accepted calls of
\* that key lie in the window ending at now; so no window of length W ever
\* holds more than M accepted calls of one key.  With M = 3 and W = 60 three
\* calls at 0 s are accepted, a fourth at 1 s is rejected and one at 61 s is
\* accepted.  (A window ending at e holds the times t with e - W < t <= e.)
C10_SlidingWindow ==
    [][rl_last'.op = "is_allowed" =>
        /\ rl_last'.max_requests = limits.max_requests
        /\ rl_last'.window_seconds = limits.window_seconds
        /\ rl_last'.allowed <=>
               CountInWindow(accepted[rl_last'.key], datetime_now, limits.window_seconds)
                   < limits.max_requests
        /\ \A key \in ClientKeys : \A e \in Instants :
               CountInWindow(accepted'[key], e, limits.window_seconds)
                   <= limits.max_requests
        /\ (/\ limits.max_requests = 3 /\ limits.window_seconds = 60
            /\ accepted[rl_last'.key] = <<0, 0, 0>>)
           => /\ datetime_now = Seconds(1) => ~rl_last'.allowed
              /\ datetime_now = Seconds(61) => rl_last'.allowed
      ]_vars

\* The example: three calls accepted at 0 s, and then one accepted at 61 s,
\* the window full until then.
C10_Witness ==
    /\ limits = [max_requests |-> 3, window_seconds |-> 60]
    /\ rl_last.op = "is_allowed"
    /\ rl_last.allowed
    /\ rl_last.now = Seconds(61)
    /\ accepted[rl_last.key] = <<0, 0, 0, Seconds(61)>>
    /\ requests[rl_last.key] = <<Seconds(61)>>

\* The whole seconds in a span of d half seconds, none for a span <= 0.
WholeSecondsLeft(d) ==
    IF d <= 0 THEN 0 ELSE (d - (d % 2)) \div 2

\* C11: get_retry_after(key, window_seconds) at time now returns
\* max(0, oldest timestamp of the key + window_seconds - now) in whole
\* seconds, and 0 for a key without timestamps; never a negative value; and
\* it changes no key's timestamps.  After three accepted calls at 0 s and
\* window 60 it returns 59 at 1 s.
C11_RetryAfter ==
    [][rl_last'.op = "get_retry_after" =>
        LET key == rl_last'.key
            list == IF key \in DOMAIN requests THEN requests[key] ELSE <<>>
            oldest == CHOOSE x \in {list[i] : i \in 1..Len(list)} :
                          \A i \in 1..Len(list) : x <= list[i]
        IN  /\ rl_last'.now = datetime_now
            /\ rl_last'.retry_after =
                   IF list = <<>> THEN 0
                   ELSE WholeSecondsLeft(
                            oldest + Seconds(rl_last'.window_seconds) - datetime_now)
            /\ rl_last'.retry_after >= 0
            /\ \A k \in ClientKeys :
                   (IF k \in DOMAIN requests' THEN requests'[k] ELSE <<>>)
                       = (IF k \in DOMAIN requests THEN requests[k] ELSE <<>>)
            /\ (/\ list = <<0, 0, 0>>
                /\ rl_last'.window_seconds = 60
                /\ datetime_now = Seconds(1))
               => rl_last'.retry_after = 59
      ]_vars

\* A second and a half after the oldest of two timestamps, window 60: 58
\* whole seconds are left.
C11_Witness ==
    /\ rl_last.op = "get_retry_after"
    /\ rl_last.window_seconds = 60
    /\ rl_last.now = 3
    /\ requests[rl_last.key] = <<0, 2>>
    /\ rl_last.retry_after = 58

\* C12 as stated: a send-sms or get-sms-balance request reaches its
\* operation only after is_allowed has accepted it, so the requests that
\* have reached an operation are no more than the accepted calls.
C12_AdmitFirstAsStated ==
    reqs + (IF sms_pc = "idle" THEN 0 ELSE 1) <= TotalLen(accepted, ClientKeys)

\* A send-sms request has its upstream call in flight and the limiter has
\* never been called.
C12_Witness ==
    /\ sms_pc = "posting"
    /\ sms_last.calls = 1
    /\ DOMAIN requests = {}
    /\ \A k \in ClientKeys : accepted[k] = <<>>

\* The value carrying the recipients: the first of number, numbers and
\* recipients that is set and not empty.
GivenRecipients(payload) ==
    IF payload.number \notin {JNull, JStr(<<>>), JList(<<>>)} THEN payload.number
    ELSE IF payload.numbers \notin {JNull, JStr(<<>>), JList(<<>>)} THEN payload.numbers
    ELSE payload.recipients

\* No recipient is left once blanks and empty entries are dropped.
NoRecipients(payload) ==
    LET v == GivenRecipients(payload)
    IN  CASE v.tag = "null" -> TRUE
          [] v.tag = "str" -> \A i \in 1..Len(v.s) : v.s[i] \in {" ", ","}
          [] v.tag = "list" ->
                 \A i \in 1..Len(v.elems) :
                     /\ v.elems[i].tag = "str"
                     /\ \A j \in 1..Len(v.elems[i].s) : v.elems[i].s[j] = " "
          [] OTHER -> FALSE

\* The message as received, and as send_sms validates it: without the
\* blanks around it.
ReceivedMessage(payload) ==
    IF payload.message.tag = "str" THEN payload.message.s ELSE <<>>

TrimmedMessage(payload) == Strip(ReceivedMessage(payload))

\* The failure the three checks give for the request, "ok" if none.
ExpectedVerdict(payload) ==
    IF NoRecipients(payload) THEN "MissingRecipients"
    ELSE IF TrimmedMessage(payload) = <<>> THEN "MissingMessage"
    ELSE IF Len(TrimmedMessage(payload)) > 160 THEN "MessageTooLong"
    ELSE "ok"

C14_BoundaryAsStated ==
    (/\ sms_last.op = "send_sms"
     /\ SEMAPHORE_API_KEY # ""
     /\ ~NoRecipients(sms_last.payload)) =>
        /\ Len(ReceivedMessage(sms_last.payload)) = 160 =>
               sms_last.calls = 1
        /\ Len(ReceivedMessage(sms_last.payload)) >= 161 =>
               /\ sms_last.calls = 0
               /\ sms_last.status = 400
               /\ sms_last.kind = "MessageTooLong"

\* C14 (amended): the characters are counted once the blanks around the
\* message are stripped.  A message of exactly 160 characters then is
\* accepted and forwarded as stripped; one of 161 or more is rejected with
\* MessageTooLong, no upstream call made.
C14_Boundary ==
    (/\ sms_last.op = "send_sms"
     /\ SEMAPHORE_API_KEY # ""
     /\ ~NoRecipients(sms_last.payload)) =>
        /\ Len(TrimmedMessage(sms_last.payload)) = 160 =>
               /\ sms_last.calls = 1
               /\ sms_last.posted.message = TrimmedMessage(sms_last.payload)
               /\ sms_last.status # 400
        /\ Len(TrimmedMessage(sms_last.payload)) >= 161 =>
               /\ sms_pc = "done"
               /\ sms_last.calls = 0
               /\ sms_last.status = 400
               /\ sms_last.kind = "MessageTooLong"

\* 161 characters received, the last a blank: 160 are posted.
C14_Witness ==
    /\ sms_pc = "posting"
    /\ Len(ReceivedMessage(sms_last.payload)) = 161
    /\ sms_last.calls = 1
    /\ sms_last.posted.message = Chars(160)

\* C15: without an API key every send_sms and every get_sms_balance request
\* is answered with the fixed not-configured error, status 500; no upstream
\* call is made, the fetch lock is not taken and both cache entries stay as
\* they were (no other step of get_sms_balance is possible); send_sms gives
\* this answer whatever the validation would say.
C15_NotConfigured ==
    SEMAPHORE_API_KEY = "" =>
        /\ \A t \in Threads :
               /\ ~ENABLED RequestHit(t)
               /\ ~ENABLED RequestMiss(t)
               /\ ~ENABLED Acquire(t)
               /\ \A r \in Responses : ~ENABLED Respond(t, r)
               /\ pc[t] = "idle"
        /\ last.thread # 0 =>
               /\ last.status = 500
               /\ last.payload.kind = "not_configured"
               /\ {"success", "error"} \subseteq last.payload.keys
               /\ ~last.payload.success
        /\ upCalls = 0
        /\ balance_fetch_lock = 0
        /\ balance_cache = InitBalanceCache
        /\ balance_error_cache = ClearedErrorCache
        /\ sms_pc # "posting"
        /\ sms_last.op = "send_sms" =>
               /\ sms_last.status = 500
               /\ sms_last.kind = "not_configured"
               /\ {"success", "error"} \subseteq sms_last.keys
               /\ ~sms_last.success
               /\ sms_last.calls = 0
               /\ sms_last.up = NoResponse

\* Without a key: a balance request has been answered, and a send-sms
\* request without recipients gets the not-configured error.
C15_Witness ==
    /\ SEMAPHORE_API_KEY = ""
    /\ reqs > 0
    /\ sms_pc = "done"
    /\ sms_last.kind = "not_configured"
    /\ sms_last.status = 500
    /\ NoRecipients(sms_last.payload)
    /\ TrimmedMessage(sms_last.payload) = <<>>

\* C16 as stated: every response of send_sms and get_sms_balance with status
\* >= 400 has success:false and an error field, every response with status
\* 429 carries retry_after as well, and every 200 served stale carries
\* stale:true and a note.
C16_FailureShapeAsStated ==
    /\ (sms_pc = "done" /\ sms_last.status >= 400) =>
           /\ {"success", "error"} \subseteq sms_last.keys
           /\ ~sms_last.success
           /\ sms_last.status = 429 => "retry_after" \in sms_last.keys
    /\ (last.thread # 0 /\ last.status >= 400) =>
           /\ {"success", "error"} \subseteq last.payload.keys
           /\ ~last.payload.success
           /\ last.status = 429 => "retry_after" \in last.payload.keys
    /\ (last.thread # 0 /\ last.status = 200 /\ last.payload.stale) =>
           {"stale", "note"} \subseteq last.payload.keys

\* The provider answers the POST with 429 and Retry-After: 12; send_sms
\* passes the 429 on without a retry_after.
C16_Witness ==
    /\ sms_pc = "done"
    /\ sms_last.status = 429
    /\ sms_last.up.has_retry_after
    /\ "retry_after" \notin sms_last.keys
    /\ {"success", "error"} \subseteq sms_last.keys

\* The call of _build_balance_payload in hand has been made.
Normalised == norm_call.pc = "called"

\* C17, as stated: _build_balance_payload never raises; whatever the decoded
\* body, it returns a record with success true and stale false.
C17_NeverRaisesAsStated ==
    Normalised =>
        /\ norm_call.result.raised = ""
        /\ norm_call.result.payload.success
        /\ ~norm_call.result.payload.stale

\* An object whose account value is a string: the call raised AttributeError.
C17_Witness ==
    /\ Normalised
    /\ norm_call.raw_payload = Wrapped(Text("main"))
    /\ norm_call.result.raised = "AttributeError"

\* Two outcomes with the same canonical balance and the same account fields.
SameCanonical(a, b) ==
    /\ a.raised = ""
    /\ b.raised = ""
    /\ a.payload.balance = b.payload.balance
    /\ a.payload.account = b.payload.account

\* C18, as stated: for every account record R, the bodies R, {"account": R}
\* and [R] normalise to the same balance and the same account fields.
C18_EquivalenceAsStated ==
    \A record \in AccountRecords :
        Normalised /\ norm_call.raw_payload \in {record, Wrapped(record), Listed(record)} =>
            /\ SameCanonical(norm_call.result, build_balance_payload(record))
            /\ SameCanonical(norm_call.result, build_balance_payload(Wrapped(record)))
            /\ SameCanonical(norm_call.result, build_balance_payload(Listed(record)))

\* The record {"account": "main", "balance": "12.5"} as the first element of a
\* list normalises to 12.5, while as the body itself it raises.
C18_Witness ==
    LET record == JDict(<<Item(Key("account"), Text("main")),
                          Item(Key("balance"), JStr(<<"1", "2", ".", "5">>))>>)
    IN  /\ Normalised
        /\ norm_call.raw_payload = Listed(record)
        /\ norm_call.result.raised = ""
        /\ norm_call.result.payload.balance = Finite(12500)
        /\ build_balance_payload(record).raised = "AttributeError"

\* The value the balance fields give to float(), where the body holds a record.
BalanceOperand(raw_payload) == BalanceField(AccountData(raw_payload))

\* C19, as stated: the balance returned is always finite, and a balance value
\* whose coercion fails, or gives NaN or an infinity, gives 0.0.
C19_FiniteAsStated ==
    Normalised /\ AccountData(norm_call.raw_payload).tag = "dict" =>
        LET coerced == PyFloat(BalanceOperand(norm_call.raw_payload))
        IN  /\ norm_call.result.raised = "" => IsFinite(norm_call.result.payload.balance)
            /\ coerced.raised # "" \/ ~IsFinite(coerced.val) =>
                   /\ norm_call.result.raised = ""
                   /\ norm_call.result.payload.balance = Finite(0)

\* A balance that is an integer of 400 digits: float() raises OverflowError,
\* which _to_float does not catch.
C19_Witness ==
    /\ Normalised
    /\ norm_call.raw_payload = JDict(<<Item(Key("balance"), JNumber(HugeNumeral))>>)
    /\ PyFloat(BalanceOperand(norm_call.raw_payload)).raised = "OverflowError"
    /\ norm_call.result.raised = "OverflowError"

\* C20: retrieved_timestamp of the success entry is the time of the last
\* upstream call that gave a fresh success payload: the write of a fresh
\* success sets it to the time of the write, and the write of a stale fallback
\* keeps it, however many follow one another, while setting timestamp to the
\* time of the write and ttl to the retry_after of that write.
C20_RetrievedAt ==
    [][/\ balance_cache'.payload # NoPayload =>
              balance_cache'.retrieved_timestamp = freshAt'
       /\ (/\ Handled(last')
           /\ last'.up.kind \in {"ok_json", "ok_nonjson"}
           /\ BALANCE_CACHE_SECONDS > 0)
          => /\ balance_cache'.retrieved_timestamp = clock
             /\ balance_cache'.timestamp = clock
             /\ ~balance_cache'.payload.stale
       /\ (/\ Handled(last')
           /\ last'.status = 200
           /\ last'.payload.stale)
          => /\ balance_cache'.retrieved_timestamp = balance_cache.retrieved_timestamp
             /\ balance_cache'.timestamp = clock
             /\ balance_cache'.timestamp >= balance_cache.timestamp
             /\ balance_cache'.ttl = last'.payload.retry_after
             /\ balance_cache'.payload = last'.payload
      ]_vars

\* The third upstream call ends in the second stale fallback in a row: both
\* were stored later than the fresh success of the first call, whose time
\* retrieved_timestamp still shows.
C20_Witness ==
    /\ Handled(last)
    /\ last.status = 200
    /\ last.payload.stale
    /\ upCalls = 3
    /\ wrote[1].entry = "success"
    /\ wrote[2].entry = "success"
    /\ wrote[3].entry = "success"
    /\ wrote[1].timestamp < wrote[2].timestamp
    /\ wrote[2].timestamp < wrote[3].timestamp
    /\ balance_cache.retrieved_timestamp = wrote[1].timestamp
    /\ balance_cache.timestamp = wrote[3].timestamp
    /\ balance_cache.ttl # wrote[2].ttl

\* C21, as stated: every response of get_sms_balance that carries stale:true,
\* one served from the cache included, reports as last_updated_seconds_ago the
\* whole seconds from the last fresh fetch to the moment the response is made.
C21_StaleAgeAsStated ==
    (last.thread # 0 /\ last.status = 200 /\ last.payload.stale) =>
        /\ balance_cache.retrieved_timestamp = freshAt
        /\ last.payload.last_updated_seconds_ago = clock - freshAt

\* A stale payload served from the cache, first check, later than it was
\* stored: it still reports the age it had when it was stored.
C21_Witness ==
    /\ last.thread # 0
    /\ last.via = "fast"
    /\ last.status = 200
    /\ last.payload.stale
    /\ balance_cache.payload = last.payload
    /\ balance_cache.retrieved_timestamp = freshAt
    /\ clock > balance_cache.timestamp
    /\ last.payload.last_updated_seconds_ago = balance_cache.timestamp - freshAt
    /\ last.payload.last_updated_seconds_ago < clock - freshAt

\* The step just taken handled a 2xx upstream reply.
HandledSuccess(resp) == Handled(resp) /\ resp.up.kind \in {"ok_json", "ok_bad", "ok_nonjson"}

\* The step just taken served a stale fallback for an upstream 429.
HandledStale(resp) == Handled(resp) /\ resp.status = 200 /\ resp.payload.stale

\* C22, as stated: right after a request that got a 2xx upstream reply or
\* served a stale fallback, the error entry is cleared (no payload, ttl 0),
\* whatever the configured TTL.
C22_ErrorClearedAsStated ==
    HandledSuccess(last) \/ HandledStale(last) => balance_error_cache = ClearedErrorCache

\* C22, amended: right after such a request the error entry is not live, and
\* a response served from the error entry always shows the error of the
\* latest upstream call; the entry is cleared where a success payload or a
\* stale fallback was stored, which takes a configured TTL > 0, and is left
\* as it was where nothing was stored.
C22_ErrorCleared ==
    [][/\ HandledSuccess(last') \/ HandledStale(last') =>
              /\ ~(/\ balance_error_cache'.payload # NoPayload
                   /\ balance_error_cache'.ttl > 0
                   /\ clock' - balance_error_cache'.timestamp < balance_error_cache'.ttl)
              /\ IF wrote'[upCalls].entry = "success"
                 THEN /\ balance_error_cache' = ClearedErrorCache
                      /\ HandledStale(last') \/ BALANCE_CACHE_SECONDS > 0
                 ELSE /\ balance_error_cache' = balance_error_cache
                      /\ last'.up.kind = "ok_bad" \/ BALANCE_CACHE_SECONDS <= 0
       /\ (/\ last'.thread # 0
           /\ last'.via \in {"fast", "postwait"}
           /\ last'.status >= 400)
          => /\ last'.payload = balance_error_cache.payload
             /\ last'.payload.origin = upCalls
             /\ wrote[upCalls].entry = "error"
      ]_vars

\* Caching is off; a fresh balance was fetched after an error entry had
\* expired, and the error entry still holds its payload.
C22_Witness ==
    /\ BALANCE_CACHE_SECONDS <= 0
    /\ Handled(last)
    /\ last.up.kind = "ok_json"
    /\ last.status = 200
    /\ balance_error_cache.payload # NoPayload
    /\ balance_error_cache.ttl > 0
    /\ clock - balance_error_cache.timestamp >= balance_error_cache.ttl

\* The step just taken stored an error entry.
ErrorWritten(resp) == Handled(resp) /\ resp.status >= 400 /\ resp.up.kind \in {"http", "transport"}

\* C23: every error write (hard 429, other HTTP error, transport failure)
\* leaves the success entry as it was: payload, status, ttl, timestamp and
\* retrieved_timestamp.
C23_ErrorWriteFrame ==
    [][ErrorWritten(last') =>
           /\ balance_error_cache'.payload = last'.payload
           /\ balance_error_cache'.timestamp = clock
           /\ balance_cache'.payload = balance_cache.payload
           /\ balance_cache'.status = balance_cache.status
           /\ balance_cache'.ttl = balance_cache.ttl
           /\ balance_cache'.timestamp = balance_cache.timestamp
           /\ balance_cache'.retrieved_timestamp = balance_cache.retrieved_timestamp
      ]_vars

\* A transport failure recorded while the success entry holds an expired
\* payload, which is still there.
C23_Witness ==
    /\ ErrorWritten(last)
    /\ last.up.kind = "transport"
    /\ last.status = 502
    /\ balance_error_cache.payload = last.payload
    /\ balance_cache.payload # NoPayload
    /\ balance_cache.retrieved_timestamp = freshAt
    /\ clock - balance_cache.timestamp >= balance_cache.ttl

\* The payload of a failure that is no rate limit: another HTTP error, or no
\* response at all.
OtherFailure(payload) == payload.kind \in {"upstream_error", "unreachable"}

\* C24: whatever the configured TTL, the error entry written for an HTTP
\* error that is no rate limit or for a transport failure has a ttl from 5
\* to 30; after such a failure is recorded at time t no upstream call is
\* issued before t + 5, and the error is not served from the cache at or
\* after t + 30.
C24_BoundedErrorTtl ==
    [][/\ (ErrorWritten(last') /\ last'.status # 429) =>
              /\ OtherFailure(balance_error_cache'.payload)
              /\ balance_error_cache'.timestamp = clock
              /\ balance_error_cache'.ttl >= 5
              /\ balance_error_cache'.ttl <= 30
       /\ (upCalls' = upCalls + 1 /\ OtherFailure(balance_error_cache.payload)) =>
              clock >= balance_error_cache.timestamp + 5
       /\ (/\ last'.thread # 0
           /\ last'.via \in {"fast", "postwait"}
           /\ OtherFailure(last'.payload))
          => /\ last'.payload = balance_error_cache.payload
             /\ clock < balance_error_cache.timestamp + 30
      ]_vars

\* With a configured TTL above 30, a transport failure is still served from
\* the cache 29 seconds after it was recorded.
C24_Witness ==
    /\ BALANCE_CACHE_SECONDS > 30
    /\ last.thread # 0
    /\ last.via = "fast"
    /\ last.payload.kind = "unreachable"
    /\ balance_error_cache.ttl = 30
    /\ clock = balance_error_cache.timestamp + 29

\* The thread of a request under way: it has started and not yet returned.
UnderWay(t) == pc[t] # "idle"

\* Thread t is where the code holds the cache lock: inside one of the
\* sections of the two checks, or handling a reply.
InCacheSection(t) ==
    \/ pc[t] \in {"first", "second"}
    \/ pc[t] = "call" /\ reply[t] # NoResponse /\ TakesCacheLock(reply[t])

\* Thread t is inside `with _balance_fetch_lock:`.
InFetchSection(t) == pc[t] \in {"locked", "second", "call"}

\* Some step of a request under way, or the end of an upstream call, can be
\* taken.
SomeStepEnabled ==
    ENABLED (\E t \in Threads :
                 \/ Proceed(t) /\ UNCHANGED <<rlvars, smsvars, nmvars>>
                 \/ \E r \in LockResponses :
                        UpstreamReturns(t, r) /\ UNCHANGED <<rlvars, smsvars, nmvars>>)

\* C25: provided every upstream call ends, every getBalance request
\* eventually returns; on every path the returning request holds neither the
\* fetch lock nor the cache lock; the cache lock is held only inside its own
\* sections, never by a thread that waits for the fetch lock or for the
\* upstream call; and while a request is under way some step can be taken.
C25_ReturnsWithLocksFree ==
    /\ [][last'.thread # 0 =>
              /\ pc'[last'.thread] = "idle"
              /\ balance_fetch_lock' # last'.thread
              /\ balance_cache_lock' # last'.thread
              /\ last'.via \in {"config", "fast"} =>
                     balance_fetch_lock' = balance_fetch_lock
              /\ last'.via \in {"postwait", "upstream"} =>
                     balance_fetch_lock = last'.thread /\ balance_fetch_lock' = 0]_vars
    /\ [](\A t \in Threads :
              /\ balance_cache_lock = t => InCacheSection(t)
              /\ balance_fetch_lock = t <=> InFetchSection(t))
    /\ []((\E t \in Threads : UnderWay(t)) => SomeStepEnabled)
    /\ \A t \in Threads : UnderWay(t) ~> ~UnderWay(t)

\* A request returns after a transport failure while another request waits
\* for the fetch lock: both locks are free.
C25_Witness ==
    /\ last.thread # 0
    /\ last.via = "upstream"
    /\ last.up.kind = "transport"
    /\ \E u \in Threads : pc[u] = "wait"
    /\ balance_fetch_lock = 0
    /\ balance_cache_lock = 0

\* The step just taken wrote the error entry.
WroteError == Handled(last') /\ wrote'[upCalls].entry = "error"

\* The step just taken wrote the success entry, fresh or as a stale fallback.
WroteSuccess == Handled(last') /\ wrote'[upCalls].entry = "success"

\* C26: at no time are the success entry and the error entry both live;
\* the error entry is written only while the success entry is absent or
\* expired, and a write of the success entry, fresh or stale, leaves the
\* error entry cleared - with requests of several threads interleaved.
C26_NeverBothLive ==
    /\ [](~(SuccessHit(clock) /\ ErrorHit(clock)))
    /\ [][/\ WroteError =>
               /\ ~SuccessHit(clock)
               /\ ~SuccessHit(now[last'.thread])
               /\ balance_cache' = balance_cache
          /\ WroteSuccess =>
               /\ balance_error_cache' = ClearedErrorCache
               /\ ~ErrorHit(clock)]_vars

\* The error entry is live while the success entry still holds the payload
\* of an earlier success, expired, and another request waits for the fetch
\* lock.
C26_Witness ==
    /\ ErrorHit(clock)
    /\ balance_cache.payload # NoPayload
    /\ balance_cache.ttl > 0
    /\ ~SuccessHit(clock)
    /\ \E u \in Threads : pc[u] = "wait"

\* A fresh success has been stored: a positive success TTL is configured and
\* a 2xx upstream reply has been handled.
FreshStored == BALANCE_CACHE_SECONDS > 0 /\ freshAt # 0

\* C27: with a positive configured success TTL, once a request has stored a
\* fresh success no request returns status 429: the success entry keeps a
\* payload from then on, the error entry holds no rate limit, and every
\* upstream reply handled as a 429, however long after the expiry, is
\* answered by the stale fallback with status 200.
C27_No429AfterSuccess ==
    /\ [](FreshStored =>
              /\ last.thread # 0 => last.status # 429
              /\ balance_cache.payload # NoPayload
              /\ balance_cache.status = 200
              /\ balance_error_cache.payload # NoPayload => balance_error_cache.status # 429)
    /\ [][(/\ FreshStored
           /\ Handled(last')
           /\ last'.up.kind = "http"
           /\ EffectiveStatus(last'.up) = 429)
          => /\ last'.status = 200
             /\ last'.payload.stale
             /\ balance_cache'.payload = last'.payload]_vars

\* An upstream 429 is answered by the stale fallback a minute or more after
\* the success it shows was fetched, the success entry long expired.
C27_Witness ==
    /\ FreshStored
    /\ HandledStale(last)
    /\ EffectiveStatus(last.up) = 429
    /\ clock - freshAt >= 60
    /\ BALANCE_CACHE_SECONDS < 60
====
